---- MODULE Spec2Model ----
(***************************************************************************)
(* A model of the db-checker validators: HashValidator.validate_table      *)
(* (src/validators/hash_compare.py), the identifier resolver and query     *)
(* helpers of src/utils/sql_utils.py, RowCountValidator.validate_table     *)
(* (src/validators/row_count.py) and BaseValidator.validate_all            *)
(* (src/validators/base.py).                                               *)
(*                                                                         *)
(* One table is held by a source and a target database.  Neither database  *)
(* is written by any action, so the two sides are fixed by Init.  A row    *)
(* is a function from column names to values, a table a sequence of rows   *)
(* in physical order.  A Python dict is modelled as a sequence of          *)
(* key/value records without repeated keys (insertion order is kept), a    *)
(* Python list as a sequence.                                              *)
(***************************************************************************)
EXTENDS Integers, Sequences, FiniteSets, TLC

\* ------------------------------------------------------------------ bounds

\* Largest number of rows a side of the table holds.
MaxRows == 2

\* Largest number of tables in one validate_all run.
MaxTables == 3

\* ------------------------------------------------------------------ domain

ColumnNames == {"id", "v"}
Values == {1, 2}
Row == [ColumnNames -> Values]

\* A fixed total order on rows, used only to enumerate tables without
\* listing the same multiset of rows twice.
RowRank(r) == 2 * r["id"] + r["v"]

Min(a, b) == IF a < b THEN a ELSE b

Range(s) == {s[i] : i \in 1..Len(s)}

\* [x for x in s if x in keep]
FilterIn(s, keep) == SelectSeq(s, LAMBDA x : x \in keep)

\* list.index(x) + 1
IndexOf(s, x) == CHOOSE i \in 1..Len(s) : s[i] = x /\ \A j \in 1..(i - 1) : s[j] # x

\* s[:n]
Prefix(s, n) == SubSeq(s, 1, Min(n, Len(s)))

IsInjective(s) == \A i, j \in 1..Len(s) : s[i] = s[j] => i = j

\* All duplicate-free sequences over the set S.
RECURSIVE Arrangements(_)
Arrangements(S) ==
    IF S = {} THEN {<<>>}
    ELSE {<<>>} \cup UNION {{<<x>> \o t : t \in Arrangements(S \ {x})} : x \in S}

\* All orders in which the elements of the set S can be listed (each once).
RECURSIVE Listings(_)
Listings(S) ==
    IF S = {} THEN {<<>>}
    ELSE UNION {{<<x>> \o t : t \in Listings(S \ {x})} : x \in S}

\* ------------------------------------------------------------------ state

VARIABLES
    cfg,            \* config['validation'] as read by the validators' __init__
    db,             \* [source, target]: each side's schema and rows; flaky:
                    \* whether lookups inside the identifier resolver may fail
    pc,             \* position of the running validate_table call
    validator,      \* "hash" | "row_count" | "none": whose validate_table runs
    loc,            \* local variables of the running validate_table call
    result,         \* the dict validate_table returns (status "none" before)
    executed,       \* statements executed during this call: {<<side, kind>>}
    fix_file,       \* contents of fix_queries_file: a sequence of statements
    va,             \* state of BaseValidator.validate_all
    sq,             \* a call of a statement generator of sql_utils on its own:
                    \* its arguments and what it returned
    sched,          \* a ValidationScheduler: is_running, thread, the threads
                    \* inside start() and stop(), the scheduler-loop threads
    last_execution, \* server.health.last_execution (its status)
    run,            \* a call of main.run_validation: the validators still to
                    \* run, their results and all_summary
    chunk           \* a call of _get_chunked_sample_hashes on its own

vars == <<cfg, db, pc, validator, loc, result, executed, fix_file, va, sq, sched, last_execution, run, chunk>>

Sides == {"source", "target"}

\* Kinds of statement that only read a database.
ReadKinds == {"introspect", "count", "page", "sample", "refetch", "ids"}
\* Kinds of statement that change a database.
WriteKinds == {"update", "insert"}

\* ------------------------------------------------- the databases (inputs)

\* The schemas a side may have: an ordered column list, the primary key and
\* the unique constraints the introspection layer reports.
SideSchemas ==
    {[columns |-> c, pk |-> k, uniques |-> u] :
        c \in Arrangements(ColumnNames) \ {<<>>},
        k \in {<<>>, <<"id">>, <<"id", "v">>},
        u \in {<<>>, << <<"v">> >>}}

WellFormedSchema(s) ==
    /\ Range(s.pk) \subseteq Range(s.columns)
    /\ \A i \in 1..Len(s.uniques) : Range(s.uniques[i]) \subseteq Range(s.columns)

\* The value tuple of a row on a list of columns.
Project(row, columns) == [i \in 1..Len(columns) |-> row[columns[i]]]

\* A key (primary key or unique constraint) holds no two rows with equal values.
KeyHolds(rows, key) ==
    \A i, j \in 1..Len(rows) : Project(rows[i], key) = Project(rows[j], key) => i = j

\* The row sequences of at most n rows a side with schema s can hold: the
\* constraints hold and columns the table lacks carry a fixed filler value.
TablesOf(s, n) ==
    {rows \in UNION {[1..m -> Row] : m \in 0..n} :
        /\ \A i \in 1..Len(rows) :
              \A c \in ColumnNames \ Range(s.columns) : rows[i][c] = 1
        /\ \A i \in 1..(Len(rows) - 1) : RowRank(rows[i]) <= RowRank(rows[i + 1])
        /\ s.pk # <<>> => KeyHolds(rows, s.pk)
        /\ \A i \in 1..Len(s.uniques) : KeyHolds(rows, s.uniques[i])}

\* max_fix_queries = None
NoLimit == -1

\* config['validation'] and the dialect of the two engines.  The full-scan
\* threshold is one below MaxRows, so that a full table is sampled and any
\* smaller one is scanned; a sample is one row short of a full table or as
\* large as one.
AllConfigs ==
    [ignored_columns : SUBSET ColumnNames, chunk_size : 1..MaxRows,
     sampling_enabled : BOOLEAN, max_rows_for_full_scan : {MaxRows - 1},
     sample_size : {MaxRows - 1, MaxRows}, db_type : {"mysql", "postgresql", "sqlite"},
     generate_fix_queries : BOOLEAN, max_fix_queries : {NoLimit, 0, 1},
     max_detailed_mismatches : {1}, missing_detection_enabled : {TRUE},
     max_table_size_for_detection : {MaxRows}]

\* No cap and fix queries on.
PlainFix(c) == c.generate_fix_queries /\ c.max_fix_queries = NoLimit

\* The configurations of the runs on sides of equal schema: every ignored
\* set; a full scan with every chunk size or sampling on every dialect; the
\* fix-query switches vary where pages are one row long and on mysql, the
\* cap of 0 statements on full scans.
DataConfigs ==
    {c \in AllConfigs :
        /\ ~c.sampling_enabled => c.db_type = "mysql" /\ c.sample_size = MaxRows - 1
        /\ c.sampling_enabled => c.chunk_size = 1
        /\ ~c.generate_fix_queries => c.max_fix_queries = NoLimit
        /\ ~PlainFix(c) => c.chunk_size = 1 /\ c.db_type = "mysql"
        /\ c.max_fix_queries = 0 => ~c.sampling_enabled}

\* The configurations of the runs on sides of any two schemas: every
\* ignored set, full scan.
SchemaConfigs ==
    {c \in AllConfigs :
        /\ ~c.sampling_enabled /\ c.db_type = "mysql" /\ c.sample_size = MaxRows - 1
        /\ c.chunk_size = 1 /\ PlainFix(c)}

WellFormedSchemas == {x \in SideSchemas : WellFormedSchema(x)}

SideOf(s, rows) ==
    [columns |-> s.columns, pk |-> s.pk, uniques |-> s.uniques, rows |-> rows]

\* The most rows a side of schema s holds in the runs on sides of equal
\* schema: MaxRows, and one less for a table of several columns without
\* any key (a keyless table of MaxRows rows has one column).
RowsBound(s) ==
    IF s.pk = <<>> /\ s.uniques = <<>> /\ Len(s.columns) > 1
    THEN MaxRows - 1 ELSE MaxRows

\* Both sides have the schema s and hold up to RowsBound(s) rows each; the
\* lookups inside the identifier resolver succeed.
DataDatabases ==
    UNION {
        LET tables == TablesOf(s, RowsBound(s))
        IN  {[source |-> SideOf(s, sr), target |-> SideOf(s, tr), flaky |-> FALSE] :
                sr \in tables, tr \in tables} :
        s \in {x \in WellFormedSchemas : x.columns[1] = "id"}}

\* The sides have any two schemas and hold up to MaxRows - 1 rows each; a
\* lookup inside the identifier resolver may fail (flaky).
SchemaDatabases ==
    UNION {UNION {
        {[source |-> SideOf(s, sr), target |-> SideOf(t, tr), flaky |-> TRUE] :
            sr \in TablesOf(s, MaxRows - 1), tr \in TablesOf(t, MaxRows - 1)} :
        t \in WellFormedSchemas} :
        s \in {x \in WellFormedSchemas : x.columns[1] = "id"}}

DataCases == DataConfigs \X DataDatabases

SchemaCases == SchemaConfigs \X SchemaDatabases

Inputs == DataCases \cup SchemaCases

\* ------------------------------------------------- sql_utils.py (pure)

\* What a lookup inside the identifier resolver can do: each of the three
\* introspection helpers catches its exception and returns [].
NoFaults == [pk |-> FALSE, uq |-> FALSE, cols |-> FALSE]

AnyFaults == IF db.flaky THEN [pk : BOOLEAN, uq : BOOLEAN, cols : BOOLEAN] ELSE {NoFaults}

get_table_columns(side, fails) == IF fails THEN <<>> ELSE side.columns

get_primary_key_columns(side, fails) == IF fails THEN <<>> ELSE side.pk

get_unique_columns(side, fails) == IF fails THEN <<>> ELSE side.uniques

\* The loop over unique_constraints: the index of the constraint the loop
\* returns at, 0 when it runs to its end.
RECURSIVE FirstUsableUnique(_, _, _)
FirstUsableUnique(uniques, available_columns, i) ==
    IF i > Len(uniques) THEN 0
    ELSE IF available_columns = <<>> THEN i
    ELSE IF Len(FilterIn(uniques[i], Range(available_columns))) = Len(uniques[i]) THEN i
    ELSE FirstUsableUnique(uniques, available_columns, i + 1)

\* A primary-key branch that returns for every non-empty key.
PkBranchReturns_AnyKey(pk_columns, available_columns) == pk_columns # <<>>

\* The primary-key branch returns: the key is non-empty and, filtered by a
\* non-empty available_columns, still non-empty.
PkBranchReturns(pk_columns, available_columns) ==
    /\ pk_columns # <<>>
    /\ \/ available_columns = <<>>
       \/ FilterIn(pk_columns, Range(available_columns)) # <<>>

get_suitable_row_identifier(side, available_columns, faults) ==
    LET pk_columns == get_primary_key_columns(side, faults.pk)
        unique_constraints == get_unique_columns(side, faults.uq)
        u == FirstUsableUnique(unique_constraints, available_columns, 1)
    IN  IF PkBranchReturns(pk_columns, available_columns)
        THEN [columns |-> IF available_columns # <<>>
                          THEN FilterIn(pk_columns, Range(available_columns))
                          ELSE pk_columns,
              kind |-> "primary_key"]
        ELSE IF u # 0
        THEN [columns |-> unique_constraints[u], kind |-> "unique_constraint"]
        ELSE [columns |-> IF available_columns # <<>>
                          THEN available_columns
                          ELSE get_table_columns(side, faults.cols),
              kind |-> "all_columns"]

\* Whether a lookup the resolver actually performed failed.
ResolverLookupFailed(side, available_columns, faults) ==
    \/ faults.pk
    \/ /\ ~PkBranchReturns(get_primary_key_columns(side, faults.pk), available_columns)
       /\ \/ faults.uq
          \/ /\ FirstUsableUnique(get_unique_columns(side, faults.uq),
                                   available_columns, 1) = 0
             /\ available_columns = <<>>
             /\ faults.cols

\* The lookups the resolver performs for side and the failures they may
\* have: a lookup the resolver does not reach does not fail.
ResolverFaults(side, available_columns) ==
    {f \in AnyFaults :
        /\ f.uq => ~PkBranchReturns(get_primary_key_columns(side, f.pk), available_columns)
        /\ f.cols =>
              /\ ~PkBranchReturns(get_primary_key_columns(side, f.pk), available_columns)
              /\ FirstUsableUnique(get_unique_columns(side, f.uq), available_columns, 1) = 0
              /\ available_columns = <<>>}

create_row_signature(row_data, identifier_columns, identifier_type) ==
    IF identifier_type = "all_columns"
    THEN row_data
    ELSE Prefix(row_data, Len(identifier_columns))

\* Every identifier kind taken to name a row.
UniqueKinds_All == {"primary_key", "unique_constraint", "all_columns"}

\* "identifier_type in ['primary_key', 'unique_constraint']"
UniqueKinds == {"primary_key", "unique_constraint"}

\* A Python dict as a sequence of [key, value] records without repeated keys.
HasKey(d, k) == \E i \in 1..Len(d) : d[i].key = k

Get(d, k) == d[CHOOSE i \in 1..Len(d) : d[i].key = k].value

Keys(d) == {d[i].key : i \in 1..Len(d)}

\* d[k] = v: a present key keeps its position, a new key goes last.
Put(d, k, v) ==
    IF HasKey(d, k)
    THEN [i \in 1..Len(d) |-> IF d[i].key = k THEN [key |-> k, value |-> v] ELSE d[i]]
    ELSE Append(d, [key |-> k, value |-> v])

\* No statement was synthesized (Python's None).
NoQuery == [kind |-> "none"]

\* An UPDATE that sets every column that is not ignored once one differs.
generate_update_query_AllColumns(identifier_columns, identifier_values, source_data, target_data, ignored_columns) ==
    LET kept == SelectSeq(source_data, LAMBDA e : e.key \notin ignored_columns)
    IN  IF \A i \in 1..Len(kept) : Get(target_data, kept[i].key) = kept[i].value
        THEN NoQuery
        ELSE [kind |-> "update",
              set |-> kept,
              where |-> [i \in 1..Len(identifier_columns) |->
                            [key |-> identifier_columns[i], value |-> identifier_values[i]]]]

\* The differences found (update_values) and the identifier the WHERE clause
\* is built from; None (NoQuery) without a difference. target_data.get(col)
\* of a missing column is None, which no value of a source row here equals.
generate_update_query(identifier_columns, identifier_values, source_data, target_data, ignored_columns) ==
    LET differs(i) == /\ source_data[i].key \notin ignored_columns
                      /\ \/ ~HasKey(target_data, source_data[i].key)
                         \/ Get(target_data, source_data[i].key) # source_data[i].value
        idx == SelectSeq([i \in 1..Len(source_data) |-> i], differs)
        update_values == [j \in 1..Len(idx) |-> source_data[idx[j]]]
    IN  IF update_values = <<>> THEN NoQuery
        ELSE [kind |-> "update",
              set |-> update_values,
              where |-> [i \in 1..Len(identifier_columns) |->
                            [key |-> identifier_columns[i], value |-> identifier_values[i]]]]

generate_insert_query(source_data, ignored_columns) ==
    LET insert == SelectSeq(source_data, LAMBDA e : e.key \notin ignored_columns)
    IN  IF insert = <<>> THEN NoQuery
        ELSE [kind |-> "insert", values |-> insert]

\* ------------------------------------------------- sql_utils: literals

\* A Python value as the statement generators test and print it: its type,
\* its number (bool and int) and its text (a str, or str() of another type).
PyNone == [type |-> "NoneType", n |-> 0, s |-> <<>>]

PyBool(b) == [type |-> "bool", n |-> IF b THEN 1 ELSE 0, s |-> <<>>]

PyInt(n) == [type |-> "int", n |-> n, s |-> <<>>]

PyStr(s) == [type |-> "str", n |-> 0, s |-> s]

\* A value of another type, here a list, whose str() is s.
PyList(s) == [type |-> "list", n |-> 0, s |-> s]

\* isinstance(val, types): bool is a subclass of int.
IsInstance(val, types) ==
    \/ val.type \in types
    \/ val.type = "bool" /\ "int" \in types

DigitChars == <<"0", "1", "2", "3", "4", "5", "6", "7", "8", "9">>

RECURSIVE Digits(_)
Digits(n) ==
    IF n < 10 THEN <<DigitChars[n + 1]>>
    ELSE Digits(n \div 10) \o <<DigitChars[(n % 10) + 1]>>

\* str(val), also what an f-string prints, as a sequence of characters.
str(val) ==
    IF val.type = "NoneType" THEN <<"N", "o", "n", "e">>
    ELSE IF val.type = "bool"
         THEN IF val.n = 1 THEN <<"T", "r", "u", "e">> ELSE <<"F", "a", "l", "s", "e">>
    ELSE IF val.type = "int" THEN Digits(val.n)
    ELSE val.s

\* s.replace("'", "''")
RECURSIVE replace_quotes(_)
replace_quotes(s) ==
    IF s = <<>> THEN <<>>
    ELSE (IF Head(s) = "'" THEN <<"'", "'">> ELSE <<Head(s)>>) \o replace_quotes(Tail(s))

Quoted(s) == <<"'">> \o s \o <<"'">>

NullLiteral == <<"N", "U", "L", "L">>

\* The literal a value is printed as in SET, in VALUES and (but for None,
\* which becomes IS NULL) in WHERE: the if/elif chain in the order of the code.
SqlLiteral(val) ==
    IF val.type = "NoneType" THEN NullLiteral
    ELSE IF IsInstance(val, {"str"}) THEN Quoted(replace_quotes(val.s))
    ELSE IF IsInstance(val, {"int", "float"}) THEN str(val)
    ELSE IF IsInstance(val, {"bool"}) THEN (IF val.n = 1 THEN <<"1">> ELSE <<"0">>)
    ELSE Quoted(replace_quotes(str(val)))

\* The text of the UPDATE that generate_update_query returns for the
\* differences q it has found: one "col = literal" per SET column and one
\* "col = literal" or "col IS NULL" per identifier column.
UpdateText(q) ==
    IF q = NoQuery THEN NoQuery
    ELSE [kind |-> "update",
          set |-> [i \in 1..Len(q.set) |->
                    [key |-> q.set[i].key, op |-> "=",
                     literal |-> SqlLiteral(q.set[i].value)]],
          where |-> [i \in 1..Len(q.where) |->
                    [key |-> q.where[i].key,
                     op |-> IF q.where[i].value.type = "NoneType" THEN "IS" ELSE "=",
                     literal |-> SqlLiteral(q.where[i].value)]]]

\* The text of the INSERT that generate_insert_query returns.
InsertText(q) ==
    IF q = NoQuery THEN NoQuery
    ELSE [kind |-> "insert",
          values |-> [i \in 1..Len(q.values) |->
                        [key |-> q.values[i].key,
                         literal |-> SqlLiteral(q.values[i].value)]]]

\* The values of the rows the generators are applied to on their own: one
\* or more of each type the literals distinguish, pairwise unequal under
\* Python's == (True == 1, so the int is not 1).
PyValues ==
    {PyNone, PyBool(TRUE), PyBool(FALSE), PyInt(2), PyStr(<<"a">>),
     PyStr(<<"o", "'", "k">>), PyList(<<"[", "'", "a", "'", "]">>)}

IdValues == {PyNone, PyBool(TRUE), PyInt(2), PyStr(<<"o", "'", "k">>)}

\* A row as the dict the callers build with dict(zip(final_columns, row)).
PyRows ==
    {<<[key |-> "id", value |-> a], [key |-> "v", value |-> b]>> : a, b \in PyValues}

\* The arguments of a generator call: both rows over the same columns, as
\* many identifier values as identifier columns.
SqlCalls ==
    [source_data : PyRows, target_data : PyRows,
     ignored_columns : SUBSET ColumnNames,
     identifier_columns : {<<"id">>},
     identifier_values : {<<a>> : a \in IdValues}]
    \cup
    [source_data : PyRows, target_data : PyRows,
     ignored_columns : SUBSET ColumnNames,
     identifier_columns : {<<"id", "v">>},
     identifier_values : {<<a, b>> : a, b \in IdValues}]

\* No generator is called on its own.
NoSqlCall == [fn |-> "none"]

\* generate_update_query applied to the arguments, with what it returned:
\* query holds the differences found, text the statement.
SQ_Update ==
    /\ sq.fn = "args"
    /\ LET q == generate_update_query(sq.args.identifier_columns,
                    sq.args.identifier_values, sq.args.source_data,
                    sq.args.target_data, sq.args.ignored_columns)
       IN  sq' = [fn |-> "update", args |-> sq.args, query |-> q, text |-> UpdateText(q)]
    /\ UNCHANGED <<cfg, db, pc, validator, loc, result, executed, fix_file, va, sched, last_execution, run, chunk>>

\* generate_insert_query applied to the source row of the arguments.
SQ_Insert ==
    /\ sq.fn = "args"
    /\ LET q == generate_insert_query(sq.args.source_data, sq.args.ignored_columns)
       IN  sq' = [fn |-> "insert", args |-> sq.args, query |-> q, text |-> InsertText(q)]
    /\ UNCHANGED <<cfg, db, pc, validator, loc, result, executed, fix_file, va, sched, last_execution, run, chunk>>

\* ------------------------------------------------- the database's answers

RECURSIVE LexLeq(_, _)
LexLeq(a, b) ==
    IF a = <<>> \/ b = <<>> THEN TRUE
    ELSE IF Head(a) # Head(b) THEN Head(a) < Head(b)
    ELSE LexLeq(Tail(a), Tail(b))

\* The orders in which a SELECT may list the rows: with ORDER BY any order
\* sorted on the ORDER BY columns (ties in any order), without it any order.
\* build_select_query adds ORDER BY only for a non-empty order_by.
OrderingsOf(rows, order_by) ==
    {p \in Listings(1..Len(rows)) :
        \A i, j \in 1..Len(rows) :
            i < j => LexLeq(Project(rows[p[i]], order_by), Project(rows[p[j]], order_by))}

\* SELECT columns FROM t [ORDER BY ..] LIMIT limit OFFSET offset, the rows
\* listed in the order p.
SelectPage(rows, columns, p, limit, offset) ==
    [i \in 1..Min(limit, IF Len(rows) > offset THEN Len(rows) - offset ELSE 0) |->
        Project(rows[p[offset + i]], columns)]

\* SELECT columns FROM t WHERE identifier = values: the rows fetchone() may
\* return, as dicts; <<>> for no row.
MatchingRows(rows, columns, identifier_columns, values) ==
    {[i \in 1..Len(columns) |-> [key |-> columns[i], value |-> rows[n][columns[i]]]] :
        n \in {m \in 1..Len(rows) : Project(rows[m], identifier_columns) = values}}

\* ------------------------------------------------- HashValidator (pure)

_filter_columns(columns) == SelectSeq(columns, LAMBDA c : c \notin cfg.ignored_columns)

\* The digest of the sorted "col:repr(value)" pairs of zip(filtered_columns, row).
\* MD5 is taken to be injective on the serializations, so the digest is
\* modelled by the set of pairs it is computed from.
_generate_row_hash(row, filtered_columns) ==
    {<<filtered_columns[i], row[i]>> : i \in 1..Min(Len(filtered_columns), Len(row))}

\* identifier_values of one fetched row: the values of the identifier
\* columns that occur in filtered_columns.
IdentifierValues(row, identifier_columns, filtered_columns) ==
    LET present == FilterIn(identifier_columns, Range(filtered_columns))
    IN  [i \in 1..Len(present) |-> row[IndexOf(filtered_columns, present[i])]]

\* The "for row in rows" loop that enters each row's hash under its signature.
RECURSIVE HashRows(_, _, _, _, _)
HashRows(hashes, rows, identifier_columns, filtered_columns, identifier_type) ==
    IF rows = <<>> THEN hashes
    ELSE HashRows(
            Put(hashes,
                create_row_signature(
                    IdentifierValues(Head(rows), identifier_columns, filtered_columns),
                    identifier_columns, identifier_type),
                _generate_row_hash(Head(rows), filtered_columns)),
            Tail(rows), identifier_columns, filtered_columns, identifier_type)

\* order_by_cols: None (no ORDER BY) for an all_columns identifier.
OrderByCols(identifier_columns, identifier_type) ==
    IF identifier_type # "all_columns" THEN identifier_columns ELSE <<>>

\* A policy that samples a table of exactly max_rows_for_full_scan rows too.
UseSampling_AtThreshold(total_rows) ==
    cfg.sampling_enabled /\ total_rows >= cfg.max_rows_for_full_scan

\* use_sampling of _get_table_hashes_with_sampling
UseSampling(total_rows) ==
    cfg.sampling_enabled /\ total_rows > cfg.max_rows_for_full_scan

\* The sampling query of _get_sampled_table_hashes: ORDER BY RAND() on mysql;
\* on postgresql ORDER BY RANDOM() when sample_percent < 0.01, else
\* TABLESAMPLE BERNOULLI(sample_percent); both with LIMIT sample_size.
SampleStrategy(total_rows) ==
    IF cfg.db_type = "mysql" THEN "rand"
    ELSE IF cfg.sample_size * 10000 < total_rows THEN "rand"
    ELSE "tablesample"

\* The row lists (as lists of row numbers) the one sampling query of
\* _get_sampled_table_hashes may return on mysql and postgresql.
\*   ORDER BY RAND()/RANDOM() LIMIT n : any min(n, N) distinct rows, any order
\*   TABLESAMPLE BERNOULLI(p) LIMIT n  : any rows (all of them when p = 100),
\*                                       in any order, cut to n
SampleOutcomes(total_rows, n_rows) ==
    LET by_limit == {a \in Arrangements(1..n_rows) :
                        Len(a) = Min(cfg.sample_size, n_rows)}
        bernoulli == IF cfg.sample_size >= total_rows
                     THEN {Prefix(a, cfg.sample_size) : a \in Listings(1..n_rows)}
                     ELSE {a \in Arrangements(1..n_rows) : Len(a) <= cfg.sample_size}
    IN  IF SampleStrategy(total_rows) = "rand" THEN by_limit ELSE bernoulli

Max(a, b) == IF a > b THEN a ELSE b

chunk_sample_size == Max(1, cfg.sample_size \div 10)

chunk_interval(total_rows) == Max(1, (total_rows \div chunk_sample_size) \div 10)

\* A LIMIT that leaves the rows sampled so far out of account.
ChunkLimit_Whole(sampled_count) == cfg.sample_size + 1

\* "limit=min(chunk_sample_size, sample_size - sampled_count)"
ChunkLimit(sampled_count) == Min(chunk_sample_size, cfg.sample_size - sampled_count)

\* ------------------------------------------------- validate_table: state

\* The local variables of a validate_table call before its first statement.
\* Six fields are not variables of the code: source_queries and
\* target_queries list the SELECTs the scan of each side has sent, in order,
\* each with the rows it returned; detailed lists the row identifiers
\* _log_detailed_mismatch was called for; unfetched holds the row identifiers
\* whose refetch for a fix statement failed; swallowed is the set of the
\* failures an inner handler has logged and passed over ("lookup" inside the
\* identifier resolver, "ids" of _get_row_identifiers, "refetch" of a row by
\* identity, "save" of the fix-query file), caught tells that
\* validate_table's own except clause ran.
InitLoc ==
    [source_filtered |-> <<>>, target_filtered |-> <<>>,
     source_identifier |-> <<>>, source_id_type |-> "none",
     target_identifier |-> <<>>, target_id_type |-> "none",
     final_columns |-> <<>>,
     source_row_count |-> 0, target_row_count |-> 0,
     source_hashes |-> <<>>, target_hashes |-> <<>>,
     source_queries |-> <<>>, target_queries |-> <<>>,
     offset |-> 0, sampled_count |-> 0, sampling_used |-> FALSE,
     mismatches |-> <<>>, mismatch_count |-> 0, fix_queries |-> <<>>,
     detailed_logged_count |-> 0, detailed |-> <<>>, i |-> 1, todo |-> {},
     swallowed |-> {}, unfetched |-> {}, caught |-> FALSE]

NoResult == [status |-> "none"]

\* An error result that carries an empty mismatches list.
ErrorResult_WithList(msg) == [status |-> "error", error |-> msg, mismatches |-> <<>>]

ErrorResult(msg) == [status |-> "error", error |-> msg]

\* The statement kinds the call has executed so far, per side.
Issue(stmts) == executed' = executed \cup stmts

\* return {...}: the call ends with result r.
ReturnWith(r) ==
    /\ result' = r
    /\ pc' = "done"

\* The pipeline positions whose database round trips are not wrapped in an
\* inner try: a failure there reaches validate_table's except clause.
RaisingPoints ==
    {"h_schema", "h_count", "h_scan_source", "h_scan_target", "rc_count", "rc_columns"}

\* except Exception as e: return {"status": "error", "error": str(e)}
\* The locals of the abandoned try block are dropped.
IOFailure ==
    /\ pc \in RaisingPoints
    /\ ReturnWith(ErrorResult("exception"))
    /\ loc' = [InitLoc EXCEPT !.caught = TRUE]
    /\ UNCHANGED <<cfg, db, validator, executed, fix_file, va, sq, sched, last_execution, run, chunk>>

\* ------------------------------------------------- HashValidator.validate_table

\* A schema check that compares the two column sets only.
SchemaError_SetsOnly(source_filtered, target_filtered) ==
    IF Range(source_filtered) # Range(target_filtered) THEN "schema_mismatch"
    ELSE "none"

\* Lines 684-707: the error the two filtered column lists give, "none" when
\* they are equal as sets and in order.
SchemaError(source_filtered, target_filtered) ==
    IF Range(source_filtered) # Range(target_filtered) THEN "schema_mismatch"
    ELSE IF source_filtered # target_filtered THEN "column_order_mismatch"
    ELSE "none"

\* Lines 714-725: the error the two resolved identifiers give.
IdentifierError(s, t) ==
    IF s.kind # t.kind THEN "identifier_type_mismatch"
    ELSE IF s.columns # t.columns THEN "identifier_columns_mismatch"
    ELSE "none"

\* Lines 667-707: introspect both column lists, drop the ignored columns,
\* require equal sets and equal order.
H_SchemaCheck ==
    /\ pc = "h_schema"
    /\ LET source_filtered == _filter_columns(db.source.columns)
           target_filtered == _filter_columns(db.target.columns)
       IN  /\ Issue({<<"source", "introspect">>, <<"target", "introspect">>})
           /\ loc' = [loc EXCEPT !.source_filtered = source_filtered,
                                 !.target_filtered = target_filtered]
           /\ IF SchemaError(source_filtered, target_filtered) # "none"
              THEN ReturnWith(ErrorResult(SchemaError(source_filtered, target_filtered)))
              ELSE pc' = "h_identifier" /\ UNCHANGED result
    /\ UNCHANGED <<cfg, db, validator, fix_file, va, sq, sched, last_execution, run, chunk>>

\* Lines 709-731: resolve the identifier on both sides, require equal kind
\* and equal columns, then add the identifier columns to the hashed columns.
H_IdentifierCheck ==
    /\ pc = "h_identifier"
    /\ \E fs \in ResolverFaults(db.source, loc.source_filtered),
          ft \in ResolverFaults(db.target, loc.target_filtered) :
        LET s == get_suitable_row_identifier(db.source, loc.source_filtered, fs)
            t == get_suitable_row_identifier(db.target, loc.target_filtered, ft)
            missing == SelectSeq(s.columns, LAMBDA c : c \notin Range(loc.source_filtered))
        IN  /\ loc' = [loc EXCEPT
                    !.source_identifier = s.columns, !.source_id_type = s.kind,
                    !.target_identifier = t.columns, !.target_id_type = t.kind,
                    !.final_columns = loc.source_filtered \o missing,
                    !.swallowed =
                        IF \/ ResolverLookupFailed(db.source, loc.source_filtered, fs)
                           \/ ResolverLookupFailed(db.target, loc.target_filtered, ft)
                        THEN {"lookup"} ELSE {}]
            /\ IF IdentifierError(s, t) # "none"
               THEN ReturnWith(ErrorResult(IdentifierError(s, t)))
               ELSE pc' = "h_count" /\ UNCHANGED result
    /\ Issue({<<"source", "introspect">>, <<"target", "introspect">>})
    /\ UNCHANGED <<cfg, db, validator, fix_file, va, sq, sched, last_execution, run, chunk>>

\* Lines 743-744: SELECT COUNT(*) on both sides.
H_RowCounts ==
    /\ pc = "h_count"
    /\ loc' = [loc EXCEPT !.source_row_count = Len(db.source.rows),
                          !.target_row_count = Len(db.target.rows)]
    /\ Issue({<<"source", "count">>, <<"target", "count">>})
    /\ pc' = "h_scan_source"
    /\ UNCHANGED <<cfg, db, validator, result, fix_file, va, sq, sched, last_execution, run, chunk>>

\* A SELECT of an empty column list is a syntax error except on postgresql.
QueryRuns(columns) == columns # <<>> \/ cfg.db_type = "postgresql"

ScanPc(side) == IF side = "source" THEN "h_scan_source" ELSE "h_scan_target"

RowCountOf(side) == IF side = "source" THEN loc.source_row_count ELSE loc.target_row_count

HashesOf(side) == IF side = "source" THEN loc.source_hashes ELSE loc.target_hashes

IdentifierOf(side) ==
    IF side = "source" THEN loc.source_identifier ELSE loc.target_identifier

IdTypeOf(side) == IF side = "source" THEN loc.source_id_type ELSE loc.target_id_type

\* Lines 750-752
SamplingUsed ==
    /\ cfg.sampling_enabled
    /\ \/ loc.source_row_count > cfg.max_rows_for_full_scan
       \/ loc.target_row_count > cfg.max_rows_for_full_scan

QueriesOf(side) == IF side = "source" THEN loc.source_queries ELSE loc.target_queries

\* One SELECT of a scan as build_select_query words it (ORDER BY only for a
\* non-empty order_by, LIMIT and OFFSET as given) with the rows it returned.
\* strategy tells the sender: "page" for _get_all_table_hashes, "chunked" for
\* _get_chunked_sample_hashes, "rand" for ORDER BY RAND()/RANDOM() and
\* "tablesample" for TABLESAMPLE BERNOULLI of _get_sampled_table_hashes.
Query(strategy, order_by, limit, offset, rows) ==
    [strategy |-> strategy, order_by |-> order_by, limit |-> limit,
     offset |-> offset, rows |-> rows]

\* The scan of one side goes on with the map built so far.
ScanOn(side, hashes, offset, sampled_count, queries) ==
    /\ loc' = IF side = "source"
              THEN [loc EXCEPT !.source_hashes = hashes, !.offset = offset,
                               !.sampled_count = sampled_count,
                               !.source_queries = queries]
              ELSE [loc EXCEPT !.target_hashes = hashes, !.offset = offset,
                               !.sampled_count = sampled_count,
                               !.target_queries = queries]
    /\ pc' = pc

\* The scan of one side returns its map: the target scan follows the source
\* scan, the comparison (lines 749-762) follows the target scan.
ScanDone(side, hashes, queries) ==
    IF side = "source"
    THEN /\ loc' = [loc EXCEPT !.source_hashes = hashes, !.offset = 0,
                               !.sampled_count = 0, !.source_queries = queries]
         /\ pc' = "h_scan_target"
    ELSE /\ loc' = [loc EXCEPT !.target_hashes = hashes, !.offset = 0,
                               !.sampled_count = 0, !.target_queries = queries,
                               !.sampling_used = SamplingUsed,
                               !.todo = Keys(loc.source_hashes) \cap Keys(hashes)]
         /\ pc' = "h_compare"

\* An offset that steps over one row more than the page held.
NextOffset_Skip(offset) == offset + cfg.chunk_size + 1

\* "offset += self.chunk_size" at the end of a pass of the page loop.
NextOffset(offset) == offset + cfg.chunk_size

\* _get_all_table_hashes, one pass of its while loop: one page request.
H_ScanPage(side) ==
    /\ pc = ScanPc(side)
    /\ ~UseSampling(RowCountOf(side))
    /\ QueryRuns(loc.final_columns)
    /\ \E p \in OrderingsOf(db[side].rows, OrderByCols(IdentifierOf(side), IdTypeOf(side))) :
        LET rows == SelectPage(db[side].rows, loc.final_columns, p,
                               cfg.chunk_size, loc.offset)
            queries == Append(QueriesOf(side),
                              Query("page", OrderByCols(IdentifierOf(side), IdTypeOf(side)),
                                    cfg.chunk_size, loc.offset, rows))
        IN  IF rows = <<>>
            THEN ScanDone(side, HashesOf(side), queries)
            ELSE ScanOn(side,
                        HashRows(HashesOf(side), rows, IdentifierOf(side),
                                 loc.final_columns, IdTypeOf(side)),
                        NextOffset(loc.offset), 0, queries)
    /\ Issue({<<side, "page">>})
    /\ UNCHANGED <<cfg, db, validator, result, fix_file, va, sq, sched, last_execution, run, chunk>>

\* _get_sampled_table_hashes on mysql and postgresql: one sampling query.
H_SampleQuery(side) ==
    /\ pc = ScanPc(side)
    /\ UseSampling(RowCountOf(side))
    /\ cfg.db_type \in {"mysql", "postgresql"}
    /\ QueryRuns(loc.final_columns)
    /\ \E a \in SampleOutcomes(RowCountOf(side), Len(db[side].rows)) :
        LET rows == [i \in 1..Len(a) |-> Project(db[side].rows[a[i]], loc.final_columns)]
        IN  ScanDone(side, HashRows(<<>>, rows, IdentifierOf(side),
                                    loc.final_columns, IdTypeOf(side)),
                     <<Query(SampleStrategy(RowCountOf(side)), <<>>,
                             cfg.sample_size, 0, rows)>>)
    /\ Issue({<<side, "sample">>})
    /\ UNCHANGED <<cfg, db, validator, result, fix_file, va, sq, sched, last_execution, run, chunk>>

\* _get_chunked_sample_hashes, one pass of its while loop (any other dialect).
H_ChunkedSample(side) ==
    /\ pc = ScanPc(side)
    /\ UseSampling(RowCountOf(side))
    /\ cfg.db_type \notin {"mysql", "postgresql"}
    /\ LET total_rows == RowCountOf(side) IN
       IF ~(loc.sampled_count < cfg.sample_size /\ loc.offset < total_rows)
       THEN ScanDone(side, HashesOf(side), QueriesOf(side)) /\ UNCHANGED executed
       ELSE \E r \in 0..(chunk_interval(total_rows) - 1) :
            IF loc.offset + r >= total_rows
            THEN ScanDone(side, HashesOf(side), QueriesOf(side)) /\ UNCHANGED executed
            ELSE /\ QueryRuns(loc.final_columns)
                 /\ \E p \in OrderingsOf(db[side].rows,
                                          OrderByCols(IdentifierOf(side), IdTypeOf(side))) :
                     LET rows == SelectPage(db[side].rows, loc.final_columns, p,
                                    ChunkLimit(loc.sampled_count), loc.offset + r)
                     IN  ScanOn(side,
                                HashRows(HashesOf(side), rows, IdentifierOf(side),
                                         loc.final_columns, IdTypeOf(side)),
                                loc.offset + chunk_interval(total_rows),
                                loc.sampled_count + Len(rows),
                                Append(QueriesOf(side),
                                       Query("chunked",
                                             OrderByCols(IdentifierOf(side), IdTypeOf(side)),
                                             ChunkLimit(loc.sampled_count),
                                             loc.offset + r, rows)))
                 /\ Issue({<<side, "sample">>})
    /\ UNCHANGED <<cfg, db, validator, result, fix_file, va, sq, sched, last_execution, run, chunk>>

\* ------------------------------------------------- comparison (lines 754-892)

\* "if self.generate_fix_queries and source_id_type in [...]"
WantsFix == cfg.generate_fix_queries /\ loc.source_id_type \in UniqueKinds

\* A cap that is reached one statement late.
FixCapped_Late ==
    cfg.max_fix_queries # NoLimit /\ Len(loc.fix_queries) > cfg.max_fix_queries

\* "if self.max_fix_queries is not None and len(fix_queries) >= self.max_fix_queries"
FixCapped ==
    cfg.max_fix_queries # NoLimit /\ Len(loc.fix_queries) >= cfg.max_fix_queries

\* An INSERT of the source row in place of the UPDATE.
_generate_fix_query_AsInsert(row_identifier, identifier_columns, identifier_type, source_row, target_row) ==
    generate_insert_query(source_row, cfg.ignored_columns)

_generate_fix_query(row_identifier, identifier_columns, identifier_type, source_row, target_row) ==
    IF identifier_type \notin UniqueKinds THEN NoQuery
    ELSE generate_update_query(identifier_columns, row_identifier, source_row,
                               target_row, cfg.ignored_columns)

_generate_insert_query(identifier_type, source_row) ==
    IF identifier_type \notin UniqueKinds THEN NoQuery
    ELSE generate_insert_query(source_row, cfg.ignored_columns)

\* "if fix_query: fix_queries.append(fix_query)"
AppendQuery(queries, q) == IF q.kind = "none" THEN queries ELSE Append(queries, q)

\* _get_row_data_for_logging and _get_row_data_for_insert: what a refetch by
\* identity may return on a side, the row as a dict or <<>> (the empty dict,
\* None) when no row matches or when the query fails; the failure is logged
\* and not raised.
RefetchOutcomes(side, row_id) ==
    LET found == MatchingRows(db[side].rows, loc.final_columns,
                              loc.source_identifier, row_id)
    IN  {[row |-> r, failed |-> FALSE] : r \in IF found = {} THEN {<<>>} ELSE found}
            \cup {[row |-> <<>>, failed |-> TRUE]}

NoRefetch == [row |-> <<>>, failed |-> FALSE]

\* The failures a step's refetches add to the ones passed over so far.
Swallow(l, fetches, row_id) ==
    IF \E f \in fetches : f.failed
    THEN [l EXCEPT !.swallowed = @ \cup {"refetch"}, !.unfetched = @ \cup {row_id}]
    ELSE l

\* A detailed-logging step that knows no limit.
LogDetailed_Always(l, row_id) ==
    [l EXCEPT !.detailed_logged_count = @ + 1, !.detailed = Append(@, row_id)]

\* Lines 806-813 and 875-882: below the limit the counter goes up and
\* _log_detailed_mismatch is called for the row; at the limit the counter
\* goes up once more for the summary line.
LogDetailed(l, row_id) ==
    IF l.detailed_logged_count < cfg.max_detailed_mismatches
    THEN [l EXCEPT !.detailed_logged_count = @ + 1, !.detailed = Append(@, row_id)]
    ELSE IF l.detailed_logged_count = cfg.max_detailed_mismatches
    THEN [l EXCEPT !.detailed_logged_count = @ + 1]
    ELSE l

\* Whether this hash mismatch gets the detailed treatment of
\* _log_detailed_mismatch, which refetches both rows for a unique identifier.
DetailsLogged ==
    /\ ~(WantsFix /\ FixCapped)
    /\ loc.detailed_logged_count < cfg.max_detailed_mismatches

\* A refetch that is taken for a row whatever it returned.
Fetched_Any(row) == TRUE

\* Lines 797 and 866, "if source_row and target_row" / "if source_row": the
\* empty dict of a row not found, or of a failed lookup, is falsy.
Fetched(row) == row # <<>>

\* The body of the loops for a row whose two hashes differ.
HashMismatchStep(row_id, source_hash, target_hash, source_row, target_row) ==
    LET l1 == [loc EXCEPT
                !.mismatch_count = @ + 1,
                !.mismatches = Append(@, [row_identifier |-> row_id,
                                          status |-> "hash_mismatch",
                                          source_hash |-> source_hash,
                                          target_hash |-> target_hash])]
        l2 == IF WantsFix /\ Fetched(source_row) /\ Fetched(target_row)
              THEN [l1 EXCEPT !.fix_queries =
                        AppendQuery(@, _generate_fix_query(row_id, loc.source_identifier,
                                        loc.source_id_type, source_row, target_row))]
              ELSE l1
    IN  IF WantsFix /\ FixCapped THEN l1 ELSE LogDetailed(l2, row_id)

HashMismatchStatements ==
    IF \/ WantsFix /\ ~FixCapped
       \/ DetailsLogged /\ loc.source_id_type \in UniqueKinds
    THEN {<<"source", "refetch">>, <<"target", "refetch">>}
    ELSE {}

\* The body of the full-scan loop for a source row absent from the target map.
MissingInTargetStep(row_id, source_hash, source_row) ==
    LET l1 == [loc EXCEPT
                !.mismatches = Append(@, [row_identifier |-> row_id,
                                          status |-> "missing_in_target",
                                          source_hash |-> source_hash])]
    IN  IF WantsFix /\ ~FixCapped /\ Fetched(source_row)
        THEN [l1 EXCEPT !.fix_queries =
                    AppendQuery(@, _generate_insert_query(loc.source_id_type, source_row))]
        ELSE l1

\* The loop over target_hashes left out.
MissingInSource_Skipped == <<>>

\* Lines 885-892: the target rows absent from the source map, in map order.
MissingInSource ==
    LET absent == SelectSeq(loc.target_hashes,
                            LAMBDA e : ~HasKey(loc.source_hashes, e.key))
    IN  [j \in 1..Len(absent) |-> [row_identifier |-> absent[j].key,
                                   status |-> "missing_in_source",
                                   target_hash |-> absent[j].value]]

\* What a step may refetch on a side: nothing when it does not refetch.
Refetched(refetches, side, row_id) ==
    IF refetches THEN RefetchOutcomes(side, row_id) ELSE {NoRefetch}

\* Lines 764-813, one pass of "for row_id in common_row_ids" (a set: the
\* order of iteration is not fixed).
H_CompareSampled ==
    /\ pc = "h_compare"
    /\ loc.sampling_used
    /\ IF loc.todo = {}
       THEN pc' = "h_save" /\ UNCHANGED <<loc, executed>>
       ELSE \E row_id \in loc.todo :
            LET source_hash == Get(loc.source_hashes, row_id)
                target_hash == Get(loc.target_hashes, row_id)
            IN  /\ pc' = pc
                /\ IF source_hash = target_hash
                   THEN /\ loc' = [loc EXCEPT !.todo = @ \ {row_id}]
                        /\ UNCHANGED executed
                   ELSE /\ \E s \in Refetched(WantsFix /\ ~FixCapped, "source", row_id),
                              t \in Refetched(WantsFix /\ ~FixCapped, "target", row_id) :
                            loc' = [Swallow(HashMismatchStep(row_id, source_hash, target_hash,
                                                             s.row, t.row), {s, t}, row_id)
                                        EXCEPT !.todo = @ \ {row_id}]
                        /\ Issue(HashMismatchStatements)
    /\ UNCHANGED <<cfg, db, validator, result, fix_file, va, sq, sched, last_execution, run, chunk>>

\* Lines 814-892, one pass of "for row_id, source_hash in source_hashes.items()";
\* after the last pass, the loop over target_hashes.
H_CompareFull ==
    /\ pc = "h_compare"
    /\ ~loc.sampling_used
    /\ IF loc.i > Len(loc.source_hashes)
       THEN /\ loc' = [loc EXCEPT !.mismatches = @ \o MissingInSource]
            /\ pc' = "h_save"
            /\ UNCHANGED executed
       ELSE LET row_id == loc.source_hashes[loc.i].key
                source_hash == loc.source_hashes[loc.i].value
            IN  /\ pc' = pc
                /\ IF ~HasKey(loc.target_hashes, row_id)
                   THEN /\ \E s \in Refetched(WantsFix /\ ~FixCapped, "source", row_id) :
                            loc' = [Swallow(MissingInTargetStep(row_id, source_hash, s.row), {s}, row_id)
                                        EXCEPT !.i = @ + 1]
                        /\ Issue(IF WantsFix /\ ~FixCapped
                                 THEN {<<"source", "refetch">>} ELSE {})
                   ELSE IF Get(loc.target_hashes, row_id) # source_hash
                   THEN /\ \E s \in Refetched(WantsFix /\ ~FixCapped, "source", row_id),
                              t \in Refetched(WantsFix /\ ~FixCapped, "target", row_id) :
                            loc' = [Swallow(HashMismatchStep(row_id, source_hash,
                                        Get(loc.target_hashes, row_id), s.row, t.row), {s, t},
                                        row_id)
                                        EXCEPT !.i = @ + 1]
                        /\ Issue(HashMismatchStatements)
                   ELSE /\ loc' = [loc EXCEPT !.i = @ + 1]
                        /\ UNCHANGED executed
    /\ UNCHANGED <<cfg, db, validator, result, fix_file, va, sq, sched, last_execution, run, chunk>>

\* A save that also runs the queries on the target database.
_save_fix_queries_Executing(fix_queries, written) ==
    [file |-> IF fix_queries # <<>> /\ written THEN fix_queries ELSE fix_file,
     statements |-> {<<"target", fix_queries[q].kind>> : q \in 1..Len(fix_queries)},
     swallowed |-> IF fix_queries # <<>> /\ ~written THEN {"save"} ELSE {}]

\* _save_fix_queries (both validators): nothing is done for an empty list;
\* else the file is opened with 'w' and the queries are written to it, a
\* failure being logged and not raised.  No statement goes to a database.
_save_fix_queries(fix_queries, written) ==
    [file |-> IF fix_queries # <<>> /\ written THEN fix_queries ELSE fix_file,
     statements |-> {},
     swallowed |-> IF fix_queries # <<>> /\ ~written THEN {"save"} ELSE {}]

\* A status that does not look at the mismatches.
StatusOf_Success(mismatches) == "success"

\* Line 899
StatusOf(mismatches) == IF mismatches = <<>> THEN "success" ELSE "mismatch"

\* Lines 894-911: save the fix queries and build the result.
H_Save ==
    /\ pc = "h_save"
    /\ IF loc.fix_queries # <<>> /\ cfg.generate_fix_queries
       THEN \E written \in BOOLEAN :
              LET saved == _save_fix_queries(loc.fix_queries, written)
              IN  /\ fix_file' = saved.file
                  /\ Issue(saved.statements)
                  /\ loc' = [loc EXCEPT !.swallowed = @ \cup saved.swallowed]
       ELSE UNCHANGED <<fix_file, executed, loc>>
    /\ ReturnWith(
        [status |-> StatusOf(loc.mismatches),
         total_rows_source |-> loc.source_row_count,
         total_rows_target |-> loc.target_row_count,
         sampled_rows_source |-> Len(loc.source_hashes),
         sampled_rows_target |-> Len(loc.target_hashes),
         compared_rows |-> IF loc.sampling_used
                           THEN Cardinality(Keys(loc.source_hashes)
                                            \cap Keys(loc.target_hashes))
                           ELSE Len(loc.source_hashes),
         sampling_used |-> loc.sampling_used,
         mismatches |-> loc.mismatches,
         fix_queries_generated |-> IF cfg.generate_fix_queries
                                   THEN Len(loc.fix_queries) ELSE 0,
         columns_used |-> loc.final_columns,
         ignored_columns |-> FilterIn(db.target.columns, cfg.ignored_columns)])
    /\ UNCHANGED <<cfg, db, validator, va, sq, sched, last_execution, run, chunk>>

\* ------------------------------------------------- RowCountValidator

\* The signature _get_row_identifiers gives a row: str(row[0]) for a single
\* identifier column, else create_row_signature of the stringified values.
RowIdentifier(row, identifier_columns, identifier_type) ==
    IF Len(identifier_columns) = 1
    THEN <<row[identifier_columns[1]]>>
    ELSE create_row_signature(Project(row, identifier_columns),
                              identifier_columns, identifier_type)

\* _get_row_identifiers: (identifier_columns, row_identifiers, identifier_type);
\* ([], [], "error") when the introspection or the query raises.  The list
\* of identifiers is kept as the set of its elements and its emptiness.
_get_row_identifiers(side, faults, raises) ==
    LET id == get_suitable_row_identifier(db[side], db[side].columns, faults)
    IN  IF raises
        THEN [columns |-> <<>>, identifiers |-> {}, kind |-> "error"]
        ELSE IF id.columns = <<>>
        THEN [columns |-> <<>>, identifiers |-> {}, kind |-> "none"]
        ELSE [columns |-> id.columns,
              identifiers |-> {RowIdentifier(db[side].rows[n], id.columns, id.kind) :
                                  n \in 1..Len(db[side].rows)},
              kind |-> id.kind]

\* Lines 254-283 and 387-395: the two COUNT(*) queries and the first result.
RC_Count ==
    /\ pc = "rc_count"
    /\ LET source_count == Len(db.source.rows)
           target_count == Len(db.target.rows)
           diff == source_count - target_count
           r == [status |-> IF diff = 0 THEN "success" ELSE "mismatch",
                 source_count |-> source_count, target_count |-> target_count,
                 difference |-> diff, missing_detection_performed |-> FALSE,
                 missing_in_target |-> <<>>, missing_in_source |-> <<>>]
       IN  IF /\ diff # 0
              /\ cfg.missing_detection_enabled
              /\ Max(source_count, target_count) <= cfg.max_table_size_for_detection
           THEN result' = r /\ pc' = "rc_detect"
           ELSE ReturnWith(r)
    /\ Issue({<<"source", "count">>, <<"target", "count">>})
    /\ UNCHANGED <<cfg, db, validator, loc, fix_file, va, sq, sched, last_execution, run, chunk>>

\* The guard without the comparison of the two row counts.
WantsInsert_AnyDiff(missing_in_target, source_id_type, diff) ==
    /\ cfg.generate_fix_queries /\ missing_in_target # <<>>
    /\ source_id_type \in UniqueKinds

\* Lines 323-324: "if (self.generate_fix_queries and missing_in_target and
\* source_id_type in ['primary_key', 'unique_constraint'] and diff > 0)"
WantsInsert(missing_in_target, source_id_type, diff) ==
    /\ cfg.generate_fix_queries /\ missing_in_target # <<>>
    /\ source_id_type \in UniqueKinds /\ diff > 0

\* Lines 298-324 and 363-386: fetch the identifiers of both sides and take
\* the two set differences; list(set) lists them in no fixed order.
RC_Detect ==
    /\ pc = "rc_detect"
    /\ \E fs \in ResolverFaults(db.source, db.source.columns),
          ft \in ResolverFaults(db.target, db.target.columns),
          rs, rt \in BOOLEAN :
        LET s == _get_row_identifiers("source", fs, rs)
            t == _get_row_identifiers("target", ft, rt)
            passed == (IF rs \/ rt THEN {"ids"} ELSE {})
                        \cup (IF fs # NoFaults \/ ft # NoFaults THEN {"lookup"} ELSE {})
        IN  IF /\ s.identifiers # {} /\ t.identifiers # {}
               /\ s.columns = t.columns /\ s.kind = t.kind
            THEN \E missing_in_target \in Listings(s.identifiers \ t.identifiers),
                    missing_in_source \in Listings(t.identifiers \ s.identifiers) :
                 LET r == [result EXCEPT !.missing_detection_performed = TRUE,
                                         !.missing_in_target = missing_in_target,
                                         !.missing_in_source = missing_in_source]
                 IN  /\ loc' = [loc EXCEPT !.source_identifier = s.columns,
                                           !.source_id_type = s.kind,
                                           !.target_identifier = t.columns,
                                           !.target_id_type = t.kind,
                                           !.swallowed = @ \cup passed]
                     /\ IF WantsInsert(missing_in_target, s.kind, result.difference)
                        THEN result' = r /\ pc' = "rc_columns"
                        ELSE ReturnWith(r)
            ELSE /\ ReturnWith(result)
                 /\ loc' = [loc EXCEPT !.swallowed = @ \cup passed]
    /\ Issue({<<"source", "introspect">>, <<"source", "ids">>,
              <<"target", "introspect">>, <<"target", "ids">>})
    /\ UNCHANGED <<cfg, db, validator, fix_file, va, sq, sched, last_execution, run, chunk>>

\* Lines 327-330: introspect the source table for all its columns.
RC_Columns ==
    /\ pc = "rc_columns"
    /\ loc' = [loc EXCEPT !.final_columns = db.source.columns]
    /\ Issue({<<"source", "introspect">>})
    /\ pc' = "rc_fix"
    /\ UNCHANGED <<cfg, db, validator, result, fix_file, va, sq, sched, last_execution, run, chunk>>

\* Lines 332-362, one pass of "for row_id in missing_in_target"; at the end
\* of the loop or at its break, _save_fix_queries and the return.
RC_Fix ==
    /\ pc = "rc_fix"
    /\ IF loc.i > Len(result.missing_in_target) \/ FixCapped
       THEN /\ IF loc.fix_queries # <<>>
               THEN \E written \in BOOLEAN :
                      LET saved == _save_fix_queries(loc.fix_queries, written)
                      IN  /\ fix_file' = saved.file
                          /\ Issue(saved.statements)
                          /\ loc' = [loc EXCEPT !.swallowed = @ \cup saved.swallowed]
               ELSE UNCHANGED <<fix_file, executed, loc>>
            /\ ReturnWith(result)
       ELSE /\ \E s \in RefetchOutcomes("source", result.missing_in_target[loc.i]) :
                loc' = [Swallow(loc, {s}, result.missing_in_target[loc.i]) EXCEPT
                    !.i = @ + 1,
                    !.fix_queries =
                        IF s.row = <<>> THEN @
                        ELSE AppendQuery(@, _generate_insert_query(loc.source_id_type,
                                                                   s.row))]
            /\ Issue({<<"source", "refetch">>})
            /\ UNCHANGED <<pc, result, fix_file>>
    /\ UNCHANGED <<cfg, db, validator, va, sq, sched, last_execution, run, chunk>>

\* ------------------------------------------------- calls

\* validate_table(table_name) is called on one of the validators.
Call(v) ==
    /\ pc = "idle"
    /\ validator' = v
    /\ pc' = IF v = "hash" THEN "h_schema" ELSE "rc_count"
    /\ UNCHANGED <<cfg, db, loc, result, executed, fix_file, va, sq, sched, last_execution, run, chunk>>

\* The caller has taken the result; the next call starts afresh.  The
\* fix-query file stays as the call left it.
Return ==
    /\ pc = "done"
    /\ pc' = "idle"
    /\ validator' = "none"
    /\ loc' = InitLoc
    /\ result' = NoResult
    /\ executed' = {}
    /\ UNCHANGED <<cfg, db, fix_file, va, sq, sched, last_execution, run, chunk>>

\* ------------------------------------------------- BaseValidator.validate_all

TableNames == {"t1", "t2", "t3"}

\* What the abstract validate_table of a subclass may do for one table:
\* return a dict with one of these statuses, or raise.
Statuses == {"success", "mismatch", "error"}

\* _get_tables_to_validate for a non-empty include list (lines 73-80).
_get_tables_to_validate(include_tables, exclude_tables) ==
    SelectSeq(include_tables, LAMBDA t : t \notin exclude_tables)

\* validate_all has not been called.
IdleRun == [pc |-> "idle", tables |-> <<>>, i |-> 1, results |-> <<>>, calls |-> <<>>]

\* Lines 102-105
VA_Start ==
    /\ va.pc = "idle"
    /\ va' = [va EXCEPT !.pc = "loop", !.i = 1, !.results = <<>>]
    /\ UNCHANGED <<cfg, db, pc, validator, loc, result, executed, fix_file, sq, sched, last_execution, run, chunk>>

\* Lines 108-136: validate_table returns for the next table and its result
\* is stored under the table's name.
VA_TableReturns(status) ==
    /\ va.pc = "loop"
    /\ va.i <= Len(va.tables)
    /\ va' = [va EXCEPT
                !.results = Put(@, va.tables[va.i], [status |-> status]),
                !.calls = Append(@, [table |-> va.tables[va.i], outcome |-> status]),
                !.i = @ + 1]
    /\ UNCHANGED <<cfg, db, pc, validator, loc, result, executed, fix_file, sq, sched, last_execution, run, chunk>>

\* The exception of validate_table leaves the loop.
VA_TableRaises_Abort ==
    /\ va.pc = "loop"
    /\ va.i <= Len(va.tables)
    /\ va' = [va EXCEPT
                !.results = Put(@, va.tables[va.i],
                                [status |-> "error", error |-> "exception"]),
                !.calls = Append(@, [table |-> va.tables[va.i], outcome |-> "raise"]),
                !.pc = "returned"]
    /\ UNCHANGED <<cfg, db, pc, validator, loc, result, executed, fix_file, sq, sched, last_execution, run, chunk>>

\* Lines 138-143: validate_table raises for the next table; an error result
\* is stored and the loop goes on.
VA_TableRaises ==
    /\ va.pc = "loop"
    /\ va.i <= Len(va.tables)
    /\ va' = [va EXCEPT
                !.results = Put(@, va.tables[va.i],
                                [status |-> "error", error |-> "exception"]),
                !.calls = Append(@, [table |-> va.tables[va.i], outcome |-> "raise"]),
                !.i = @ + 1]
    /\ UNCHANGED <<cfg, db, pc, validator, loc, result, executed, fix_file, sq, sched, last_execution, run, chunk>>

\* Lines 145-146: return results
VA_Return ==
    /\ va.pc = "loop"
    /\ va.i > Len(va.tables)
    /\ va' = [va EXCEPT !.pc = "returned"]
    /\ UNCHANGED <<cfg, db, pc, validator, loc, result, executed, fix_file, sq, sched, last_execution, run, chunk>>

\* ------------------------------------------------- scheduler/executor.py

\* The threads that call start() and stop() of one ValidationScheduler, and
\* the threads start() creates for _scheduler_loop.
Callers == {"c1", "c2"}

Loops == {"t1", "t2"}

\* __init__, lines 19-22; every caller outside start() and stop(), no
\* scheduler-loop thread created yet.
IdleSched ==
    [is_running |-> FALSE, thread |-> "none",
     caller |-> [c \in Callers |-> [pc |-> "idle", joins |-> "none"]],
     loop |-> [t \in Loops |-> "unborn"]]

\* run_validation, or _get_chunked_sample_hashes on its own, is not called.
NotCalled == [pc |-> "none"]

\* server/health.py, lines 11-15: last_execution as the module is loaded.
NotStarted == [status |-> "not_started"]

\* server/health.py, update_execution_status: the global is replaced.
update_execution_status(status) == last_execution' = [status |-> status]

\* start(), lines 55-57: "if self.is_running: return"; the test and the
\* assignment that follows are separate steps of the calling thread.
StartCheck(c) ==
    /\ sched.caller[c].pc = "idle"
    /\ IF sched.is_running
       THEN UNCHANGED sched
       ELSE /\ \E t \in Loops : sched.loop[t] = "unborn"
            /\ sched' = [sched EXCEPT !.caller[c].pc = "start_set"]
    /\ UNCHANGED <<cfg, db, pc, validator, loc, result, executed, fix_file, va, sq,
                   last_execution, run, chunk>>

\* start(), line 59: self.is_running = True
StartSet(c) ==
    /\ sched.caller[c].pc = "start_set"
    /\ sched' = [sched EXCEPT !.is_running = TRUE, !.caller[c].pc = "start_thread"]
    /\ UNCHANGED <<cfg, db, pc, validator, loc, result, executed, fix_file, va, sq,
                   last_execution, run, chunk>>

\* start(), lines 60-62: the thread is created, kept in self.thread and
\* started; it enters _scheduler_loop, which registers the job and calls
\* _run_validation at once (lines 41-44).
StartThread(c) ==
    /\ sched.caller[c].pc = "start_thread"
    /\ \E t \in Loops :
        /\ sched.loop[t] = "unborn"
        /\ sched' = [sched EXCEPT !.thread = t, !.loop[t] = "begin",
                                  !.caller[c].pc = "idle"]
    /\ UNCHANGED <<cfg, db, pc, validator, loc, result, executed, fix_file, va, sq,
                   last_execution, run, chunk>>

\* stop(), lines 69-71: "if not self.is_running: return"
StopCheck(c) ==
    /\ sched.caller[c].pc = "idle"
    /\ IF ~sched.is_running
       THEN UNCHANGED sched
       ELSE sched' = [sched EXCEPT !.caller[c].pc = "stop_set"]
    /\ UNCHANGED <<cfg, db, pc, validator, loc, result, executed, fix_file, va, sq,
                   last_execution, run, chunk>>

\* stop(), line 73: self.is_running = False
StopSet(c) ==
    /\ sched.caller[c].pc = "stop_set"
    /\ sched' = [sched EXCEPT !.is_running = FALSE, !.caller[c].pc = "stop_thread"]
    /\ UNCHANGED <<cfg, db, pc, validator, loc, result, executed, fix_file, va, sq,
                   last_execution, run, chunk>>

\* stop(), lines 74-75: "if self.thread: self.thread.join()" reads the
\* thread kept last and starts to wait for it.
StopThread(c) ==
    /\ sched.caller[c].pc = "stop_thread"
    /\ sched' = IF sched.thread = "none"
                THEN [sched EXCEPT !.caller[c].pc = "idle"]
                ELSE [sched EXCEPT !.caller[c] = [pc |-> "stop_join",
                                                  joins |-> sched.thread]]
    /\ UNCHANGED <<cfg, db, pc, validator, loc, result, executed, fix_file, va, sq,
                   last_execution, run, chunk>>

\* stop(), lines 75-76: join() returns when the awaited thread has ended.
Joined(c) ==
    /\ sched.caller[c].pc = "stop_join"
    /\ sched.loop[sched.caller[c].joins] = "exited"
    /\ sched' = [sched EXCEPT !.caller[c] = [pc |-> "idle", joins |-> "none"]]
    /\ UNCHANGED <<cfg, db, pc, validator, loc, result, executed, fix_file, va, sq,
                   last_execution, run, chunk>>

\* _run_validation, lines 29-30: the status is set to running and the
\* validation function is entered.
RunBegin(t) ==
    /\ sched.loop[t] = "begin"
    /\ update_execution_status("running")
    /\ sched' = [sched EXCEPT !.loop[t] = "in_func"]
    /\ UNCHANGED <<cfg, db, pc, validator, loc, result, executed, fix_file, va, sq,
                   run, chunk>>

\* Line 30: the validation function returns or raises.
FuncEnds(t, raises) ==
    /\ sched.loop[t] = "in_func"
    /\ sched' = [sched EXCEPT !.loop[t] = IF raises THEN "raised" ELSE "returned"]
    /\ UNCHANGED <<cfg, db, pc, validator, loc, result, executed, fix_file, va, sq,
                   last_execution, run, chunk>>

\* Lines 31 and 33-36: the status of the cycle that has ended; the thread
\* is back in the loop of _scheduler_loop.
RunUpdate(t) ==
    /\ sched.loop[t] \in {"returned", "raised"}
    /\ update_execution_status(IF sched.loop[t] = "raised" THEN "failed" ELSE "completed")
    /\ sched' = [sched EXCEPT !.loop[t] = "loop"]
    /\ UNCHANGED <<cfg, db, pc, validator, loc, result, executed, fix_file, va, sq,
                   run, chunk>>

\* Lines 46-47: is_running is set and run_pending() finds the job due.  (A
\* pass of the loop that finds no job due sleeps and changes nothing.)
Timer(t) ==
    /\ sched.loop[t] = "loop"
    /\ sched.is_running
    /\ sched' = [sched EXCEPT !.loop[t] = "begin"]
    /\ UNCHANGED <<cfg, db, pc, validator, loc, result, executed, fix_file, va, sq,
                   last_execution, run, chunk>>

\* Line 46: "while self.is_running" finds the flag cleared; the thread ends.
LoopExit(t) ==
    /\ sched.loop[t] = "loop"
    /\ ~sched.is_running
    /\ sched' = [sched EXCEPT !.loop[t] = "exited"]
    /\ UNCHANGED <<cfg, db, pc, validator, loc, result, executed, fix_file, va, sq,
                   last_execution, run, chunk>>

\* ------------------------------------------------- main.run_validation

\* The validators one run creates at most.
MaxValidators == 3

\* The tables every validator of a run validates, in the order of validate_all.
RunTables == <<"t1", "t2">>

\* What validate_all of one validator may return: a dict from table name to a
\* result, of which the summary reads the status.
ValidatorResults ==
    {[i \in 1..Len(RunTables) |-> [key |-> RunTables[i], value |-> f[i]]] :
        f \in [1..Len(RunTables) -> Statuses]}


\* _generate_validator_summary, lines 145-167: the tables of one validator by
\* the status of their result, in the order of the dict.
_generate_validator_summary(validator_results) ==
    LET TablesWith(status) ==
            LET hits == SelectSeq(validator_results, LAMBDA e : e.value = status)
            IN  [j \in 1..Len(hits) |-> hits[j].key]
    IN  [passed_tables |-> TablesWith("success"),
         failed_tables |-> TablesWith("mismatch"),
         error_tables |-> TablesWith("error")]

\* list.remove(x) where the code has tested "x in list": the first
\* occurrence goes.
Remove(list, x) ==
    IF x \notin Range(list) THEN list
    ELSE LET n == CHOOSE i \in 1..Len(list) :
                    list[i] = x /\ \A j \in 1..(i - 1) : list[j] # x
         IN  SubSeq(list, 1, n - 1) \o SubSeq(list, n + 1, Len(list))

\* Lines 97-100, the body of "for table in summary['passed_tables']".
MergePassed(all, table) ==
    IF table \notin Range(all.failed_tables) /\ table \notin Range(all.error_tables)
    THEN [all EXCEPT !.passed_tables = IF table \in Range(@) THEN @ ELSE Append(@, table)]
    ELSE all

\* A failed table that takes its place whatever the summary holds of it.
MergeFailed_Always(all, table) ==
    [all EXCEPT !.passed_tables = Remove(@, table),
                !.failed_tables = IF table \in Range(@) THEN @ ELSE Append(@, table)]

\* Lines 102-107, the body of "for table in summary['failed_tables']".
MergeFailed(all, table) ==
    IF table \notin Range(all.error_tables)
    THEN [all EXCEPT !.passed_tables = Remove(@, table),
                     !.failed_tables = IF table \in Range(@) THEN @ ELSE Append(@, table)]
    ELSE all

\* Lines 109-115, the body of "for table in summary['error_tables']".
MergeError(all, table) ==
    [all EXCEPT !.passed_tables = Remove(@, table),
                !.failed_tables = Remove(@, table),
                !.error_tables = IF table \in Range(@) THEN @ ELSE Append(@, table)]

\* "for table in summary[list]" with the body of its list, from all_summary
\* as the loop finds it.
RECURSIVE ForEach(_, _, _)
ForEach(list, all, tables) ==
    IF tables = <<>> THEN all
    ELSE LET next == CASE list = "passed_tables" -> MergePassed(all, Head(tables))
                       [] list = "failed_tables" -> MergeFailed(all, Head(tables))
                       [] list = "error_tables" -> MergeError(all, Head(tables))
         IN  ForEach(list, next, Tail(tables))

\* Lines 83-115, one pass of "for validator in validators": validate_all,
\* the validator's summary, and the three loops that update all_summary.
RV_Validator ==
    /\ run.pc = "loop"
    /\ run.i <= Len(run.validators)
    /\ LET summary == _generate_validator_summary(run.validators[run.i])
           a1 == ForEach("passed_tables", run.all_summary, summary.passed_tables)
           a2 == ForEach("failed_tables", a1, summary.failed_tables)
           a3 == ForEach("error_tables", a2, summary.error_tables)
       IN  run' = [run EXCEPT !.i = @ + 1, !.all_summary = a3]
    /\ UNCHANGED <<cfg, db, pc, validator, loc, result, executed, fix_file, va, sq,
                   sched, last_execution, chunk>>

\* Lines 117-124: the loop has ended; the summary is printed and returned.
RV_Return ==
    /\ run.pc = "loop"
    /\ run.i > Len(run.validators)
    /\ run' = [run EXCEPT !.pc = "returned"]
    /\ UNCHANGED <<cfg, db, pc, validator, loc, result, executed, fix_file, va, sq,
                   sched, last_execution, chunk>>

\* ------------------------------------------------- _get_chunked_sample_hashes

\* The largest sample_size and the largest table of a call on its own.
MaxSampleSize == 20

MaxTotalRows == 21


\* "LIMIT limit OFFSET offset" with ORDER BY on a unique identifier, on a
\* table of total_rows rows that does not change: the rows are named by
\* their position in that order.
ChunkPage(total_rows, limit, offset) == {n \in 1..total_rows : offset < n /\ n <= offset + limit}

\* Lines 224-274, one pass of "while sampled_count < self.sample_size and
\* offset < total_rows" for a unique identifier: hashes gets one entry per
\* distinct row, sampled_count goes up once per row returned.
CH_Pass ==
    /\ chunk.pc = "loop"
    /\ IF ~(chunk.sampled_count < cfg.sample_size /\ chunk.offset < chunk.total_rows)
       THEN chunk' = [chunk EXCEPT !.pc = "returned"]
       ELSE \E r \in 0..(chunk_interval(chunk.total_rows) - 1) :
            LET random_offset == chunk.offset + r
                rows == ChunkPage(chunk.total_rows, ChunkLimit(chunk.sampled_count),
                                  random_offset)
            IN  IF random_offset >= chunk.total_rows
                THEN chunk' = [chunk EXCEPT !.pc = "returned"]
                ELSE chunk' = [chunk EXCEPT
                        !.pages = Append(@, rows),
                        !.hashes = @ \cup rows,
                        !.sampled_count = @ + Cardinality(rows),
                        !.offset = @ + chunk_interval(chunk.total_rows)]
    /\ UNCHANGED <<cfg, db, pc, validator, loc, result, executed, fix_file, va, sq,
                   sched, last_execution, run>>

\* ------------------------------------------------- specification

Init ==
    /\ \E in \in Inputs : cfg = in[1] /\ db = in[2]
    /\ pc = "idle"
    /\ validator = "none"
    /\ loc = InitLoc
    /\ result = NoResult
    /\ executed = {}
    /\ fix_file = <<>>
    /\ va = IdleRun
    /\ sq = NoSqlCall
    /\ sched = IdleSched
    /\ last_execution = NotStarted
    /\ run = NotCalled
    /\ chunk = NotCalled

Next ==
    \/ Call("hash")
    \/ Call("row_count")
    \/ IOFailure
    \/ H_SchemaCheck
    \/ H_IdentifierCheck
    \/ H_RowCounts
    \/ \E side \in Sides : H_ScanPage(side)
    \/ \E side \in Sides : H_SampleQuery(side)
    \/ \E side \in Sides : H_ChunkedSample(side)
    \/ H_CompareSampled
    \/ H_CompareFull
    \/ H_Save
    \/ RC_Count
    \/ RC_Detect
    \/ RC_Columns
    \/ RC_Fix
    \/ Return

Spec == Init /\ [][Next]_vars

\* One validate_all run over the tables a configuration selects; the
\* validator's validate_table is the abstract method of BaseValidator.
InitAll ==
    /\ \E include_tables \in UNION {[1..n -> TableNames] : n \in 1..MaxTables},
          exclude_tables \in SUBSET TableNames :
            va = [IdleRun EXCEPT
                    !.tables = _get_tables_to_validate(include_tables, exclude_tables)]
    /\ cfg = <<>>
    /\ db = <<>>
    /\ pc = "idle"
    /\ validator = "none"
    /\ loc = InitLoc
    /\ result = NoResult
    /\ executed = {}
    /\ fix_file = <<>>
    /\ sq = NoSqlCall
    /\ sched = IdleSched
    /\ last_execution = NotStarted
    /\ run = NotCalled
    /\ chunk = NotCalled

NextAll ==
    \/ VA_Start
    \/ \E status \in Statuses : VA_TableReturns(status)
    \/ VA_TableRaises
    \/ VA_Return

SpecAll == InitAll /\ [][NextAll]_vars

\* The statement generators of sql_utils, each applied once to arguments
\* drawn from SqlCalls.
InitSql ==
    /\ \E a \in SqlCalls : sq = [fn |-> "args", args |-> a]
    /\ cfg = <<>>
    /\ db = <<>>
    /\ pc = "idle"
    /\ validator = "none"
    /\ loc = InitLoc
    /\ result = NoResult
    /\ executed = {}
    /\ fix_file = <<>>
    /\ va = IdleRun
    /\ sched = IdleSched
    /\ last_execution = NotStarted
    /\ run = NotCalled
    /\ chunk = NotCalled

NextSql ==
    \/ SQ_Update
    \/ SQ_Insert

SpecSql == InitSql /\ [][NextSql]_vars

\* One ValidationScheduler used by the threads of Callers, and the health
\* status its cycles write.
InitSched ==
    /\ sched = IdleSched
    /\ last_execution = NotStarted
    /\ cfg = <<>>
    /\ db = <<>>
    /\ pc = "idle"
    /\ validator = "none"
    /\ loc = InitLoc
    /\ result = NoResult
    /\ executed = {}
    /\ fix_file = <<>>
    /\ va = IdleRun
    /\ sq = NoSqlCall
    /\ run = NotCalled
    /\ chunk = NotCalled

CycleSteps ==
    \/ \E t \in Loops : RunBegin(t)
    \/ \E t \in Loops, raises \in BOOLEAN : FuncEnds(t, raises)
    \/ \E t \in Loops : RunUpdate(t)

NextSched ==
    \/ \E c \in Callers : StartCheck(c)
    \/ \E c \in Callers : StartSet(c)
    \/ \E c \in Callers : StartThread(c)
    \/ \E c \in Callers : StopCheck(c)
    \/ \E c \in Callers : StopSet(c)
    \/ \E c \in Callers : StopThread(c)
    \/ \E c \in Callers : Joined(c)
    \/ CycleSteps
    \/ \E t \in Loops : Timer(t)
    \/ \E t \in Loops : LoopExit(t)

SpecSched == InitSched /\ [][NextSched]_vars

\* One call of run_validation with at least one validator created; each
\* validator's validate_all returns one of ValidatorResults; all_summary as
\* lines 76-81 build it.
InitRun ==
    /\ \E n \in 1..MaxValidators : \E validators \in [1..n -> ValidatorResults] :
        run = [pc |-> "loop", validators |-> validators, i |-> 1,
               all_summary |-> [passed_tables |-> <<>>, failed_tables |-> <<>>,
                               error_tables |-> <<>>]]
    /\ sched = IdleSched
    /\ last_execution = NotStarted
    /\ cfg = <<>>
    /\ db = <<>>
    /\ pc = "idle"
    /\ validator = "none"
    /\ loc = InitLoc
    /\ result = NoResult
    /\ executed = {}
    /\ fix_file = <<>>
    /\ va = IdleRun
    /\ sq = NoSqlCall
    /\ chunk = NotCalled

SpecRun == InitRun /\ [][RV_Validator \/ RV_Return]_vars

\* One call of _get_chunked_sample_hashes for a table with a unique
\* identifier, a sample_size and a row count.
InitChunk ==
    /\ \E sample_size \in 1..MaxSampleSize, total_rows \in 1..MaxTotalRows :
        /\ cfg = [sample_size |-> sample_size]
        /\ chunk = [pc |-> "loop", total_rows |-> total_rows, offset |-> 0,
                    sampled_count |-> 0, hashes |-> {}, pages |-> <<>>]
    /\ sched = IdleSched
    /\ last_execution = NotStarted
    /\ db = <<>>
    /\ pc = "idle"
    /\ validator = "none"
    /\ loc = InitLoc
    /\ result = NoResult
    /\ executed = {}
    /\ fix_file = <<>>
    /\ va = IdleRun
    /\ sq = NoSqlCall
    /\ run = NotCalled

SpecChunk == InitChunk /\ [][CH_Pass]_vars

\* The same, with a validation function that returns or raises and threads
\* that are not starved: a cycle that has begun takes its next step.
FairSpecSched == SpecSched /\ WF_vars(CycleSteps)

\* ------------------------------------------------- properties

\* A call of HashValidator.validate_table has returned.
HashDone == validator = "hash" /\ pc = "done"

\* ... with a comparison result.
HashCompared == HashDone /\ result.status # "error"

\* The positions of the mismatch records that name the signature k.
RecordsFor(k) ==
    {j \in 1..Len(result.mismatches) : result.mismatches[j].row_identifier = k}

\* The schema check or the identifier check of the call found a difference.
ChecksFailed ==
    \/ loc.source_filtered # loc.target_filtered
    \/ loc.source_id_type # loc.target_id_type
    \/ loc.source_identifier # loc.target_identifier

\* C1: after a full scan the mismatches list holds exactly one
\* missing_in_target record for every signature of the source map absent
\* from the target map, one missing_in_source record for every signature of
\* the target map absent from the source map, one hash_mismatch record for
\* every common signature with unequal hashes, and no other record.
C1_FullScanClassification ==
    (HashCompared /\ ~result.sampling_used) =>
        LET S == loc.source_hashes
            T == loc.target_hashes
            m == result.mismatches
            Expected(k) ==
                IF ~HasKey(T, k)
                THEN [row_identifier |-> k, status |-> "missing_in_target",
                      source_hash |-> Get(S, k)]
                ELSE IF ~HasKey(S, k)
                THEN [row_identifier |-> k, status |-> "missing_in_source",
                      target_hash |-> Get(T, k)]
                ELSE [row_identifier |-> k, status |-> "hash_mismatch",
                      source_hash |-> Get(S, k), target_hash |-> Get(T, k)]
            Reported == {k \in Keys(S) \cup Keys(T) :
                            ~(HasKey(S, k) /\ HasKey(T, k) /\ Get(S, k) = Get(T, k))}
        IN  /\ \A k \in Reported :
                /\ Cardinality(RecordsFor(k)) = 1
                /\ \A j \in RecordsFor(k) : m[j] = Expected(k)
            /\ \A j \in 1..Len(m) : m[j].row_identifier \in Reported

\* A full scan has reported a changed row next to a row the source lacks.
C1_Witness ==
    /\ HashCompared /\ ~result.sampling_used
    /\ \E j, k \in 1..Len(result.mismatches) :
        /\ result.mismatches[j].status = "hash_mismatch"
        /\ result.mismatches[k].status = "missing_in_source"

\* C2: when sampling was used the mismatches list holds hash_mismatch
\* records only, one for every signature in both sampled maps with unequal
\* hashes; a signature in one map only gives no record, and no INSERT is
\* synthesized.
C2_SampledOnlyHashMismatch ==
    (HashCompared /\ result.sampling_used) =>
        LET S == loc.source_hashes
            T == loc.target_hashes
            m == result.mismatches
            Unequal == {k \in Keys(S) \cap Keys(T) : Get(S, k) # Get(T, k)}
        IN  /\ \A j \in 1..Len(m) :
                /\ m[j].row_identifier \in Unequal
                /\ m[j] = [row_identifier |-> m[j].row_identifier,
                           status |-> "hash_mismatch",
                           source_hash |-> Get(S, m[j].row_identifier),
                           target_hash |-> Get(T, m[j].row_identifier)]
            /\ \A k \in Unequal : Cardinality(RecordsFor(k)) = 1
            /\ \A q \in 1..Len(loc.fix_queries) : loc.fix_queries[q].kind # "insert"

\* A sampled comparison has found a changed row and has synthesized its
\* UPDATE while one sampled map holds a signature the other lacks.
C2_Witness ==
    /\ HashCompared /\ result.sampling_used
    /\ Keys(loc.source_hashes) # Keys(loc.target_hashes)
    /\ result.mismatches # <<>>
    /\ loc.fix_queries # <<>>

C4_ValidateAllIsolation ==
    /\ \A k \in 1..Len(va.calls) : va.calls[k].table = va.tables[k]
    /\ va.pc = "loop" => Len(va.calls) = va.i - 1
    /\ va.pc = "returned" =>
        /\ Len(va.calls) = Len(va.tables)
        /\ Keys(va.results) = Range(va.tables)
        /\ Len(va.results) = Cardinality(Range(va.tables))
        /\ \A k \in 1..Len(va.tables) :
            (\A n \in (k + 1)..Len(va.tables) : va.tables[n] # va.tables[k]) =>
                Get(va.results, va.tables[k]).status =
                    IF va.calls[k].outcome = "raise" THEN "error"
                    ELSE va.calls[k].outcome

\* A run has returned in which the validation of one table raised and the
\* validation of the table after it succeeded.
C4_Witness ==
    /\ va.pc = "returned"
    /\ IsInjective(va.tables)
    /\ \E k \in 1..(Len(va.calls) - 1) :
        /\ va.calls[k].outcome = "raise"
        /\ va.calls[k + 1].outcome = "success"
        /\ Get(va.results, va.tables[k]).status = "error"

\* C5: every statement executed on the source or the target database is a
\* read; the synthesized UPDATE and INSERT statements are in the fix-query
\* file only.
C5_OnlyReads ==
    /\ \A e \in executed : e[1] \in Sides /\ e[2] \in ReadKinds
    /\ \A q \in 1..Len(fix_file) : fix_file[q].kind \in WriteKinds

\* A call has written an UPDATE and an INSERT to the fix-query file.
C5_Witness ==
    /\ pc = "done"
    /\ fix_file = loc.fix_queries
    /\ \E q, r \in 1..Len(fix_file) :
        fix_file[q].kind = "update" /\ fix_file[r].kind = "insert"
    /\ \E e \in executed : e[2] = "refetch"

\* C6 as stated: a full scan of two tables holding identical rows returns
\* success with no mismatch, for every identifier kind and chunk size.
C6_IdenticalTablesSucceed ==
    (/\ HashDone
     /\ db.source = db.target
     /\ ~(cfg.sampling_enabled /\ Len(db.source.rows) > cfg.max_rows_for_full_scan)
     /\ ~loc.caught /\ loc.swallowed = {}) =>
        /\ result.status = "success"
        /\ result.mismatches = <<>>

\* C7 as stated: columns_used holds no ignored column, so two rows that
\* differ in ignored columns only get the same hash.
C7_IgnoredNeverHashed ==
    HashCompared =>
        /\ Range(result.columns_used) \cap cfg.ignored_columns = {}
        /\ \A r1, r2 \in Row :
            (\A c \in ColumnNames \ cfg.ignored_columns : r1[c] = r2[c]) =>
                _generate_row_hash(Project(r1, result.columns_used), result.columns_used)
                  = _generate_row_hash(Project(r2, result.columns_used), result.columns_used)

\* The identifier check of a call has resolved the source identifier and no
\* lookup inside the resolver has failed.
SourceResolved ==
    /\ validator = "hash"
    /\ loc.source_id_type # "none"
    /\ "lookup" \notin loc.swallowed

ScanKinds == {"count", "page", "sample"}

PastChecks == {"h_count", "h_scan_source", "h_scan_target", "h_compare", "h_save"}

\* C9: no row-count, page or sampling query is issued unless the filtered
\* column lists of the two sides are equal as sets and in order and both
\* sides resolved the same identifier kind and columns; when one of the
\* checks fails the result is an error and there is no mismatch record and
\* no fix statement.
C9_ChecksBeforeScan ==
    validator = "hash" =>
        /\ pc \in PastChecks =>
            /\ ~ChecksFailed
            /\ loc.source_id_type # "none"
        /\ (\E e \in executed : e[2] \in ScanKinds) =>
            /\ pc \in (PastChecks \ {"h_count"}) \cup {"done"}
            /\ _filter_columns(db.source.columns) = _filter_columns(db.target.columns)
            /\ ~loc.caught => (~ChecksFailed /\ loc.source_id_type # "none")
        /\ (pc = "done" /\ ChecksFailed) =>
            /\ result.status = "error"
            /\ "mismatches" \notin DOMAIN result
            /\ loc.mismatches = <<>> /\ loc.fix_queries = <<>>
            /\ \A e \in executed : e[2] \notin ScanKinds

\* The two sides have equal filtered column lists, the identifiers they
\* resolved differ, and the call has returned.
C9_Witness ==
    /\ HashDone
    /\ loc.source_filtered = loc.target_filtered
    /\ loc.source_id_type # "none"
    /\ ChecksFailed

\* C10 as stated: when a lookup inside the identifier resolver fails the
\* resolver returns an empty descriptor and validate_table returns error.
C10_LookupFailureIsError ==
    (HashDone /\ "lookup" \in loc.swallowed) =>
        /\ loc.source_identifier = <<>> \/ loc.target_identifier = <<>>
        /\ result.status = "error"

\* ------------------------------------------------- scans

\* The scan of the side has returned its map to validate_table.
Scanned(side) ==
    /\ validator = "hash"
    /\ \/ pc \in {"h_compare", "h_save"}
       \/ pc = "h_scan_target" /\ side = "source"
       \/ HashCompared

\* The side is scanned page by page: sampling is off or the table is not
\* larger than max_rows_for_full_scan.
FullScanned(side) ==
    ~(cfg.sampling_enabled /\ Len(db[side].rows) > cfg.max_rows_for_full_scan)

CeilDiv(n, d) == (n + d - 1) \div d

\* C11: the paged scan of a table of N rows sends ceil(N / chunk_size) + 1
\* page requests and no more, which bounds its loop: while it runs it has
\* sent fewer than that many, each pass having sent one request and moved
\* the offset on by chunk_size, none of the requests but the last returns
\* zero rows, and when the scan has returned it has sent exactly that many,
\* the last one returning zero rows (one request for an empty table).
C11_PageRequests ==
    \A side \in Sides :
        (validator = "hash" /\ FullScanned(side)) =>
            LET q == QueriesOf(side)
                pages == CeilDiv(Len(db[side].rows), cfg.chunk_size) + 1
            IN  /\ Len(q) <= pages
                /\ \A j \in 1..Len(q) : q[j].rows = <<>> => j = pages
                /\ pc = ScanPc(side) => (Len(q) < pages /\ loc.offset = Len(q) * cfg.chunk_size)
                /\ Scanned(side) => (Len(q) = pages /\ q[pages].rows = <<>>)

\* A table of more rows than a page holds is scanned in three requests and
\* an empty one in a single request.
C11_Witness ==
    /\ pc = "h_compare"
    /\ FullScanned("source") /\ FullScanned("target")
    /\ Len(db.source.rows) > cfg.chunk_size /\ Len(loc.source_queries) = 3
    /\ db.target.rows = <<>> /\ Len(loc.target_queries) = 1

\* The rows the queries of a scan returned, in the order of their return.
RECURSIVE Returned(_)
Returned(q) == IF q = <<>> THEN <<>> ELSE Head(q).rows \o Returned(Tail(q))

\* C12: the finished paged scan of a side whose identifier is a primary key
\* or a unique constraint requested the offsets 0, chunk_size, 2*chunk_size,
\* ... in this order, each with ORDER BY on the identifier columns, returned
\* every row of the table in exactly one page and built a map of exactly one
\* entry per row.
C12_FullScanCoversOnce ==
    \A side \in Sides :
        (Scanned(side) /\ FullScanned(side) /\ IdTypeOf(side) \in UniqueKinds) =>
            LET q == QueriesOf(side)
                rows == db[side].rows
                returned == Returned(q)
            IN  /\ \A j \in 1..Len(q) :
                    /\ q[j].offset = (j - 1) * cfg.chunk_size
                    /\ q[j].order_by = IdentifierOf(side)
                    /\ q[j].order_by # <<>>
                /\ \A n \in 1..Len(rows) :
                    Cardinality({k \in 1..Len(returned) :
                                    returned[k] = Project(rows[n], loc.final_columns)})
                    = Cardinality({m \in 1..Len(rows) :
                                    Project(rows[m], loc.final_columns)
                                    = Project(rows[n], loc.final_columns)})
                /\ Len(HashesOf(side)) = Len(rows)

\* The side is scanned by sampling.
Sampled(side) == ~FullScanned(side)

\* C13: on a sampled side, whatever the strategy, no query asks for more
\* than sample_size rows or returns more than it asked for, the rows
\* accumulated so far (the running count of the chunked strategy included)
\* never exceed sample_size, and the map has at most sample_size entries.
C13_SampleSizeBound ==
    \A side \in Sides :
        (validator = "hash" /\ Sampled(side)) =>
            LET q == QueriesOf(side) IN
            /\ \A j \in 1..Len(q) :
                /\ q[j].limit <= cfg.sample_size
                /\ Len(q[j].rows) <= q[j].limit
                /\ q[j].strategy \in {"rand", "tablesample"} => Len(q) = 1
            /\ Len(Returned(q)) <= cfg.sample_size
            /\ Len(HashesOf(side)) <= cfg.sample_size
            /\ pc = ScanPc(side) =>
                /\ loc.sampled_count = Len(Returned(q))
                /\ loc.sampled_count <= cfg.sample_size

\* The chunked strategy has filled its sample of sample_size rows in several
\* queries.
C13_Witness ==
    /\ validator = "hash" /\ pc = "h_scan_target"
    /\ Sampled("source")
    /\ cfg.db_type = "sqlite"
    /\ Len(loc.source_queries) > 1
    /\ Len(Returned(loc.source_queries)) = cfg.sample_size
    /\ Len(loc.source_hashes) = cfg.sample_size

\* The strategies of the queries that built the map of the side.
StrategiesOf(side) == {QueriesOf(side)[j].strategy : j \in 1..Len(QueriesOf(side))}

SampleStrategies == {"chunked", "rand", "tablesample"}

\* C14: the map of a side is built by sampling queries iff sampling is
\* enabled and the side's row count is strictly greater than
\* max_rows_for_full_scan, and by page requests otherwise (a row count equal
\* to the threshold included); the sampling_used of the comparison and of the
\* result is true iff the map of at least one side was built by sampling.
C14_ScanModePolicy ==
    /\ \A side \in Sides :
        Scanned(side) =>
            /\ StrategiesOf(side) # {}
            /\ IF cfg.sampling_enabled /\ RowCountOf(side) > cfg.max_rows_for_full_scan
               THEN StrategiesOf(side) \subseteq SampleStrategies
               ELSE StrategiesOf(side) = {"page"}
    /\ Scanned("target") =>
        /\ loc.sampling_used <=>
            \E side \in Sides : StrategiesOf(side) \subseteq SampleStrategies
        /\ HashCompared => result.sampling_used = loc.sampling_used

\* A result with sampling_used whose target, of exactly max_rows_for_full_scan
\* rows, was scanned page by page while the larger source was sampled.
C14_Witness ==
    /\ HashCompared
    /\ result.sampling_used
    /\ loc.target_row_count = cfg.max_rows_for_full_scan
    /\ StrategiesOf("target") = {"page"}
    /\ StrategiesOf("source") \subseteq SampleStrategies

\* ------------------------------------------------- statement generators

\* The columns that are not ignored on which the two rows of the call differ.
Differing ==
    {c \in ColumnNames \ sq.args.ignored_columns :
        Get(sq.args.source_data, c) # Get(sq.args.target_data, c)}

\* C15: generate_update_query returns none iff the source and the target row
\* agree on every column that is not ignored; otherwise SET assigns exactly
\* the columns that are not ignored and differ, each once and to the value
\* of the source row, and WHERE constrains exactly the identifier columns,
\* each to its identifier value.
C15_UpdateQuery ==
    sq.fn = "update" =>
        /\ sq.query = NoQuery <=> Differing = {}
        /\ sq.text = NoQuery <=> Differing = {}
        /\ sq.query # NoQuery =>
            /\ {sq.query.set[i].key : i \in 1..Len(sq.query.set)} = Differing
            /\ Len(sq.query.set) = Cardinality(Differing)
            /\ \A i \in 1..Len(sq.query.set) :
                /\ sq.query.set[i].value = Get(sq.args.source_data, sq.query.set[i].key)
                /\ sq.text.set[i].key = sq.query.set[i].key
            /\ Len(sq.text.set) = Len(sq.query.set)
            /\ [i \in 1..Len(sq.query.where) |-> sq.query.where[i].key]
                    = sq.args.identifier_columns
            /\ [i \in 1..Len(sq.text.where) |-> sq.text.where[i].key]
                    = sq.args.identifier_columns
            /\ \A i \in 1..Len(sq.query.where) :
                sq.query.where[i].value = sq.args.identifier_values[i]

\* An UPDATE of one column for two rows that agree on a column that is not
\* ignored and differ on the other.
C15_Witness ==
    /\ sq.fn = "update"
    /\ sq.args.ignored_columns = {}
    /\ Get(sq.args.source_data, "id") = Get(sq.args.target_data, "id")
    /\ sq.query # NoQuery
    /\ Len(sq.query.set) = 1 /\ sq.query.set[1].key = "v"
    /\ sq.args.identifier_columns = <<"id">>

\* The literal of a value by its type: NULL, 1 or 0 for a boolean, the
\* digits of a number, a string in single quotes with each single quote
\* doubled, and the text of any other value quoted and doubled likewise.
LiteralByType(val) ==
    IF val.type = "NoneType" THEN <<"N", "U", "L", "L">>
    ELSE IF val.type = "bool" THEN (IF val.n = 1 THEN <<"1">> ELSE <<"0">>)
    ELSE IF val.type = "int" THEN Digits(val.n)
    ELSE <<"'">> \o replace_quotes(val.s) \o <<"'">>

\* C16: every literal of a synthesized UPDATE (SET and WHERE) and INSERT
\* (VALUES) is the literal of its value by the value's type: unquoted NULL,
\* 1 or 0 for a boolean, the unquoted number, the quoted string with its
\* single quotes doubled, the quoted and escaped text of any other value.
C16_LiteralRendering ==
    /\ (sq.fn = "update" /\ sq.text # NoQuery) =>
        /\ \A i \in 1..Len(sq.text.set) :
            sq.text.set[i].literal = LiteralByType(sq.query.set[i].value)
        /\ \A i \in 1..Len(sq.text.where) :
            sq.text.where[i].literal = LiteralByType(sq.query.where[i].value)
    /\ (sq.fn = "insert" /\ sq.text # NoQuery) =>
        \A i \in 1..Len(sq.text.values) :
            sq.text.values[i].literal = LiteralByType(sq.query.values[i].value)

\* ------------------------------------------------- fix statements

\* A validate_table call of either validator that resolved the identifier of
\* the source table to all of its columns.
AllColumnsCall == validator # "none" /\ loc.source_id_type = "all_columns"

\* C17: in a call on a table whose identifier kind is all_columns, of the
\* hash validator or of the row-count validator, no fix statement is ever
\* collected, no row is refetched by its identity, no UPDATE or INSERT is
\* executed, the result of the hash validator reports 0 fix_queries_generated,
\* and no step of the call changes the fix-query file.
C17_NoFixWithoutKey ==
    /\ [](AllColumnsCall =>
            /\ loc.fix_queries = <<>>
            /\ \A side \in Sides :
                {<<side, "refetch">>, <<side, "update">>, <<side, "insert">>}
                    \cap executed = {}
            /\ HashCompared => result.fix_queries_generated = 0)
    /\ [][AllColumnsCall' => fix_file' = fix_file]_vars

\* The hash validator has returned mismatches for a table without a key
\* while the generation of fix statements is switched on.
C17_Witness ==
    /\ HashCompared
    /\ loc.source_id_type = "all_columns"
    /\ cfg.generate_fix_queries
    /\ result.mismatches # <<>>
    /\ result.fix_queries_generated = 0

RowCountCall == validator = "row_count"

\* C18: the row-count validator collects INSERT statements, refetches source
\* rows and writes the fix-query file only when the source holds more rows
\* than the target; when it does not, no statement is collected and no step
\* of the call changes the file, while a performed missing-row detection
\* still reports every source identifier absent from the target as
\* missing_in_target.
C18_InsertOnlyWhenSourceLarger ==
    /\ [](RowCountCall =>
            /\ (loc.fix_queries # <<>> \/ <<"source", "refetch">> \in executed) =>
                    Len(db.source.rows) > Len(db.target.rows)
            /\ \A i \in 1..Len(loc.fix_queries) : loc.fix_queries[i].kind = "insert"
            /\ (pc = "done" /\ result.status # "error"
                    /\ result.missing_detection_performed) =>
                    Range(result.missing_in_target) =
                        {RowIdentifier(db.source.rows[n], loc.source_identifier,
                                       loc.source_id_type) : n \in 1..Len(db.source.rows)}
                        \ {RowIdentifier(db.target.rows[n], loc.target_identifier,
                                         loc.target_id_type) : n \in 1..Len(db.target.rows)})
    /\ [][(RowCountCall' /\ fix_file' # fix_file) =>
                Len(db.source.rows) > Len(db.target.rows)]_vars

\* The target holds more rows than the source and lacks a source row: the
\* row is reported as missing_in_target and no INSERT is made for it.
C18_Witness ==
    /\ RowCountCall /\ pc = "done"
    /\ cfg.generate_fix_queries
    /\ loc.source_id_type \in UniqueKinds
    /\ result.difference < 0
    /\ result.missing_in_target # <<>>
    /\ loc.fix_queries = <<>>

\* C19: the fix-query file accumulates over the validate_table calls of a
\* run: a step that writes the statements of a later call leaves every
\* statement an earlier call wrote in the file, ahead of its own.
C19_ArtifactAccumulates ==
    [][/\ Len(fix_file') >= Len(fix_file)
       /\ SubSeq(fix_file', 1, Len(fix_file)) = fix_file]_vars

\* A cap on the fix statements is configured.
Capped == cfg.max_fix_queries # NoLimit

HashMismatches(mismatches) ==
    {j \in 1..Len(mismatches) : mismatches[j].status = "hash_mismatch"}

\* C21: in a call of the hash validator at most max_detailed_mismatches hash
\* mismatches get the detailed treatment, each of them once and each of them
\* a recorded hash mismatch; every hash mismatch, detailed or not, is counted
\* and recorded with status hash_mismatch, and the result holds exactly one
\* such record for every compared row whose two hashes differ.
C21_DetailCap ==
    validator = "hash" =>
        /\ Len(loc.detailed) <= cfg.max_detailed_mismatches
        /\ IsInjective(loc.detailed)
        /\ \A i \in 1..Len(loc.detailed) :
            \E j \in HashMismatches(loc.mismatches) :
                loc.mismatches[j].row_identifier = loc.detailed[i]
        /\ loc.mismatch_count = Cardinality(HashMismatches(loc.mismatches))
        /\ HashCompared =>
            \A k \in Keys(loc.source_hashes) \cap Keys(loc.target_hashes) :
                Cardinality({j \in HashMismatches(result.mismatches) :
                                result.mismatches[j].row_identifier = k})
                = IF Get(loc.source_hashes, k) # Get(loc.target_hashes, k) THEN 1 ELSE 0

\* Two hash mismatches are in the result and one of them, the limit, was
\* detailed.
C21_Witness ==
    /\ HashCompared
    /\ Cardinality(HashMismatches(result.mismatches)) > cfg.max_detailed_mismatches
    /\ Len(loc.detailed) = cfg.max_detailed_mismatches

\* C27: a reached max_fix_queries suppresses the synthesis of fix statements
\* only: with or without a cap, the hash mismatches found so far were
\* recorded and were detailed up to max_detailed_mismatches of them.
C27_CapLeavesDetails ==
    validator = "hash" =>
        /\ loc.mismatch_count = Cardinality(HashMismatches(loc.mismatches))
        /\ Len(loc.detailed) =
                Min(cfg.max_detailed_mismatches,
                    Cardinality(HashMismatches(loc.mismatches)))

\* ------------------------------------------------- failures

\* The mismatch records a fix statement is made for.
Fixable(mismatches) ==
    {j \in 1..Len(mismatches) :
        mismatches[j].status \in {"hash_mismatch", "missing_in_target"}}

\* C22: a failed refetch of a row for a fix statement costs that statement
\* and nothing else: the step that meets the failure appends the row's
\* mismatch record, adds no statement and leaves the loop running; every row
\* whose refetch failed keeps its record, the other records may still get
\* their statements, and the call returns the status mismatch, not error,
\* with every compared signature classified.
C22_RefetchFailureSkipsOne ==
    /\ [](validator = "hash" =>
            /\ \A k \in loc.unfetched :
                \E j \in Fixable(loc.mismatches) : loc.mismatches[j].row_identifier = k
            /\ Len(loc.fix_queries) + Cardinality(loc.unfetched)
                    <= Cardinality(Fixable(loc.mismatches))
            /\ (HashDone /\ loc.unfetched # {}) =>
                /\ result.status = "mismatch"
                /\ result.mismatches = loc.mismatches
                /\ \A k \in Keys(loc.source_hashes) \cap Keys(loc.target_hashes) :
                    Get(loc.source_hashes, k) # Get(loc.target_hashes, k) =>
                        \E j \in HashMismatches(result.mismatches) :
                            result.mismatches[j].row_identifier = k
                /\ ~result.sampling_used =>
                    \A k \in Keys(loc.source_hashes) \cup Keys(loc.target_hashes) :
                        (k \notin Keys(loc.source_hashes) \/ k \notin Keys(loc.target_hashes))
                            => RecordsFor(k) # {})
    /\ [][(validator = "hash" /\ validator' = "hash"
                /\ loc'.unfetched # loc.unfetched) =>
            /\ pc' = pc
            /\ loc'.fix_queries = loc.fix_queries
            /\ Len(loc'.mismatches) = Len(loc.mismatches) + 1
            /\ loc'.unfetched =
                loc.unfetched \cup {loc'.mismatches[Len(loc'.mismatches)].row_identifier}]_vars

\* A call has returned mismatch with two records: the refetch for the one
\* failed, the statement for the other was made.
C22_Witness ==
    /\ HashDone
    /\ result.status = "mismatch"
    /\ Cardinality(loc.unfetched) = 1
    /\ Len(result.mismatches) > 1
    /\ loc.fix_queries # <<>>

\* The positions of validate_table where row counts are taken and rows are
\* scanned or sampled.
ScanPhase == {"h_count", "h_scan_source", "h_scan_target"}

\* C23: a failure of a scan-phase query ends the call at once with a result
\* of exactly a status error and a message, with no mismatches list; the
\* hashes and records gathered so far are gone, no refetch and no fix
\* statement was made, and the artifact is as the call found it.
C23_ScanFailureIsError ==
    /\ [](HashDone /\ loc.caught =>
            /\ DOMAIN result = {"status", "error"}
            /\ result.status = "error"
            /\ loc.source_hashes = <<>> /\ loc.target_hashes = <<>>
            /\ loc.mismatches = <<>> /\ loc.fix_queries = <<>>
            /\ \A side \in {"source", "target"} : <<side, "refetch">> \notin executed)
    /\ [][(validator = "hash" /\ pc \in ScanPhase /\ loc'.caught) =>
            /\ pc' = "done"
            /\ result'.status = "error"
            /\ "mismatches" \notin DOMAIN result'
            /\ fix_file' = fix_file]_vars
    /\ [][(validator = "hash" /\ pc # "h_save") => fix_file' = fix_file]_vars

\* A call has ended in error after pages of both sides had been hashed.
C23_Witness ==
    /\ HashDone
    /\ loc.caught
    /\ result.status = "error"
    /\ <<"source", "page">> \in executed
    /\ <<"target", "page">> \in executed

\* ------------------------------------------------- soundness of the full scan

\* How many rows of a table read r over the given columns.
Occurrences(rows, columns, r) ==
    Cardinality({n \in 1..Len(rows) : Project(rows[n], columns) = r})

\* The two tables hold the same rows over the columns, counting duplicates.
SameRows(columns) ==
    \A side \in Sides : \A n \in 1..Len(db[side].rows) :
        LET r == Project(db[side].rows[n], columns)
        IN  Occurrences(db.source.rows, columns, r)
              = Occurrences(db.target.rows, columns, r)

\* C28 as stated: a full scan that returns success, with no failure on its
\* way, has found the same rows on both sides over columns_used, duplicates
\* counted, whatever the identifier kind.
C28_FullScanSound ==
    (/\ HashCompared
     /\ result.status = "success"
     /\ ~result.sampling_used
     /\ ~loc.caught /\ loc.swallowed = {}) =>
        SameRows(result.columns_used)

\* ------------------------------------------------- missing-row detection

\* The identifier a side resolves when no lookup fails.
Resolved(side) == get_suitable_row_identifier(db[side], db[side].columns, NoFaults)

\* The identifiers of the rows of a side.
IdentifiersOf(side) ==
    {RowIdentifier(db[side].rows[n], Resolved(side).columns, Resolved(side).kind) :
        n \in 1..Len(db[side].rows)}

\* C29 as stated: when the row counts differ, detection is enabled, the
\* larger table is within max_table_size_for_detection, no lookup or query
\* of the detection failed and both sides resolve the same identifier, the
\* call reports the detection as performed with the two exact differences
\* of the identifier sets, an empty table included.
C29_MissingDetection ==
    (/\ RowCountCall /\ pc = "done" /\ ~loc.caught
     /\ Len(db.source.rows) # Len(db.target.rows)
     /\ cfg.missing_detection_enabled
     /\ Max(Len(db.source.rows), Len(db.target.rows)) <= cfg.max_table_size_for_detection
     /\ loc.swallowed \cap {"ids", "lookup"} = {}
     /\ Resolved("source") = Resolved("target")
     /\ Resolved("source").columns # <<>>) =>
        /\ result.missing_detection_performed
        /\ Range(result.missing_in_target) = IdentifiersOf("source") \ IdentifiersOf("target")
        /\ Range(result.missing_in_source) = IdentifiersOf("target") \ IdentifiersOf("source")

\* ------------------------------------------------- scheduler and health status

\* The threads inside the validation function, and the threads inside a
\* cycle (from the status running to the status of its end).
InFunction == {t \in Loops : sched.loop[t] = "in_func"}

InCycle == {t \in Loops : sched.loop[t] \in {"in_func", "returned", "raised"}}

\* C24 as stated: whatever the interleaving of start(), stop() and timer
\* firings, at most one execution of the validation function is in progress
\* and a cycle has completed before the next begins.
C24_NoOverlap ==
    /\ Cardinality(InFunction) <= 1
    /\ Cardinality(InCycle) <= 1

\* C30 as stated: the status starts as not_started; a cycle sets running
\* only when no earlier cycle has left running behind, and ends by turning
\* running into completed when the function returned and into failed when
\* it raised; running is always followed by completed or failed.
C30_StatusProtocol ==
    /\ last_execution.status = "not_started"
    /\ [][\A t \in Loops :
            /\ (sched.loop[t] = "begin" /\ sched'.loop[t] = "in_func") =>
                /\ last_execution.status \in {"not_started", "completed", "failed"}
                /\ last_execution'.status = "running"
            /\ (sched.loop[t] \in {"returned", "raised"} /\ sched'.loop[t] = "loop") =>
                /\ last_execution.status = "running"
                /\ last_execution'.status =
                    IF sched.loop[t] = "raised" THEN "failed" ELSE "completed"]_vars
    /\ (last_execution.status = "running")
            ~> (last_execution.status \in {"completed", "failed"})

\* ------------------------------------------------- run summary

\* The statuses the validators run so far have given the table.
StatusesOf(table) ==
    {run.validators[v][j].value :
        v \in 1..(run.i - 1), j \in {k \in 1..Len(RunTables) : RunTables[k] = table}}

\* error over mismatch over success.
WorstOf(statuses) ==
    IF "error" \in statuses THEN "error"
    ELSE IF "mismatch" \in statuses THEN "mismatch"
    ELSE "success"

TablesWithWorst(status) ==
    {t \in Range(RunTables) : StatusesOf(t) # {} /\ WorstOf(StatusesOf(t)) = status}

\* C25: after every validator of the run, and so when run_validation
\* returns, the three lists of all_summary have no duplicates and no table
\* in common, and each holds exactly the validated tables whose worst status
\* over the validators run so far is its own; the right-hand sides do not
\* depend on the order of the validators.
C25_WorstStatusWins ==
    run.pc \in {"loop", "returned"} =>
        LET all == run.all_summary
        IN  /\ IsInjective(all.passed_tables)
            /\ IsInjective(all.failed_tables)
            /\ IsInjective(all.error_tables)
            /\ Range(all.passed_tables) \cap Range(all.failed_tables) = {}
            /\ Range(all.passed_tables) \cap Range(all.error_tables) = {}
            /\ Range(all.failed_tables) \cap Range(all.error_tables) = {}
            /\ Range(all.passed_tables) = TablesWithWorst("success")
            /\ Range(all.failed_tables) = TablesWithWorst("mismatch")
            /\ Range(all.error_tables) = TablesWithWorst("error")

\* A run of three validators has returned: a table passed by the first,
\* failed by the second and in error for the third, and another table in
\* error for the first and passed by the others.
C25_Witness ==
    /\ run.pc = "returned"
    /\ Len(run.validators) = 3
    /\ run.validators[1][1].value = "success"
    /\ run.validators[2][1].value = "mismatch"
    /\ run.validators[3][1].value = "error"
    /\ run.validators[1][2].value = "error"
    /\ run.validators[2][2].value = "success"
    /\ run.validators[3][2].value = "success"

\* ------------------------------------------------- chunked sampling

\* C26 as stated: the pages of successive passes share no row, so the map
\* has as many entries as rows were counted toward sample_size, and the
\* loop has ended only with sample_size distinct rows in the map or with
\* the window offset at the row count.
C26_PagesDisjoint ==
    chunk.pc # "none" =>
        /\ \A i, j \in 1..Len(chunk.pages) :
            i # j => chunk.pages[i] \cap chunk.pages[j] = {}
        /\ Cardinality(chunk.hashes) = chunk.sampled_count
        /\ chunk.pc = "returned" =>
            \/ Cardinality(chunk.hashes) >= cfg.sample_size
            \/ chunk.offset >= chunk.total_rows

====
